---- MODULE Spec2Model ----
(***************************************************************************)
(* Change-detection engine of webnotify: check_source (webnotify/tasks.py) *)
(* run against one NotificationSource, with the site, the HTTP transport,  *)
(* the browser render and the wall clock as environment.                   *)
(*                                                                         *)
(* Python values are written as follows.  An Optional[int] is a sequence:  *)
(* <<>> is None (or an absent dict key), <<n>> is the integer n.  A sha256 *)
(* digest of x is <<"sha256", x>>, the empty string in a digest position   *)
(* or header position is <<>>.                                             *)
(***************************************************************************)
EXTENDS Integers, Sequences, FiniteSets, TLC

\* ------------------------------------------------------------------ bounds
\* greatest number a page shows in its title
MaxCount == 6

\* ------------------------------------------------------------ python values
NoneVal == <<>>
Some(n) == <<n>>
Opt(S) == {NoneVal} \cup {Some(n) : n \in S}
IsNone(x) == x = NoneVal
\* int(x)
IntOf(x) == x[1]
\* a stored value int() raises ValueError on, such as "n/a"
NotANumber == <<0, 0>>
\* int(x) raises
IntRaises(x) == Len(x) # 1
\* Python truthiness of an Optional[int]: None and 0 are falsy
Truthy(x) == x # NoneVal /\ x[1] # 0
\* Python "a or b"
OrElse(a, b) == IF Truthy(a) THEN a ELSE b

\* hashlib.sha256(...).hexdigest(): injective, never the empty string
Sha256(x) == <<"sha256", x>>
EmptyStr == <<>>

\* ------------------------------------------------------------------- pages
\* One visible-text line: kw = KEYWORDS matches the line, num = the first
\* 1-3 digit number on the line (None when there is none).
Lines == {l \in [kw : BOOLEAN, num : Opt({1})] : l.kw \/ IsNone(l.num)}
\* The visible text of a page: its lines in order.
Texts == {<<>>} \cup {<<l>> : l \in Lines}

\* A document as the extractors see it:
\*   gmail = what _gmail_unread_count returns, title = what
\*   _extract_count_from_title returns, aria = what
\*   _extract_count_from_aria_or_badges returns, lines = _visible_text,
\*   items = the keys of its anchors and item blocks in document order.
\* The empty document "" has no markup at all.
EmptyHtml ==
    [gmail |-> NoneVal, title |-> NoneVal, aria |-> NoneVal, lines |-> <<>>, items |-> <<>>,
     empty |-> TRUE]
\* The pages the site serves: any text under a title that shows no count or
\* shows 0, and no text or a keyword line under a title that shows a count
\* (the text is not searched for a count then).
KeywordLine == [kw |-> TRUE, num |-> NoneVal]
Pages ==
    [gmail : {NoneVal}, title : Opt({0}), aria : {NoneVal}, lines : Texts, items : {<<>>},
     empty : {FALSE}]
    \cup [gmail : {NoneVal}, title : {Some(n) : n \in 1..MaxCount}, aria : {NoneVal},
          lines : {<<>>, <<KeywordLine>>}, items : {<<>>}, empty : {FALSE}]
Htmls == Pages \cup {EmptyHtml}

\* --------------------------------------------------------------- item keys
\* keys[:500]
KeysCap == 500
\* how many keys more than the cap a document holds at most
MaxExcess == 2
\* n distinct keys in document order
Run(n) == [i \in 1..n |-> i]
\* the key candidates of a document: few, about the cap, and with repeats
ItemLists ==
    {Run(n) : n \in 0..3}
    \cup {Run(n) : n \in (KeysCap - 1)..(KeysCap + MaxExcess)}
    \cup {Run(n) \o Run(n) : n \in 1..2}
    \cup {Run(2) \o Run(KeysCap + MaxExcess)}
\* a page of a site that lists its messages under a title with a count
ItemPage(count, items) ==
    [gmail |-> NoneVal, title |-> Some(count), aria |-> NoneVal, lines |-> <<>>,
     items |-> items, empty |-> FALSE]
ItemPages == {ItemPage(c, Run(n)) : c \in 2..3, n \in 1..2}
\* the documents _extract_item_keys is called on
KeySoups == {ItemPage(2, l) : l \in ItemLists}

\* "if key not in seen: seen.add(key); keys.append(key)" over the candidates:
\* the first occurrence of every key, in document order.  The loop is
\* unfolded by halves: the keys of the first half, then those of the second
\* half that the first half did not add.
RECURSIVE Dedup(_)
Dedup(items) ==
    IF Len(items) <= 1 THEN items
    ELSE LET m == Len(items) \div 2
             first == Dedup(SubSeq(items, 1, m))
             second == Dedup(SubSeq(items, m + 1, Len(items)))
             seen == {first[i] : i \in DOMAIN first}
             Fresh(key) == key \notin seen
         IN  first \o SelectSeq(second, Fresh)

\* keys[:n]
Take(keys, n) == SubSeq(keys, 1, IF Len(keys) < n THEN Len(keys) ELSE n)

\* _extract_item_keys without the final slice
ExtractItemKeysUncapped(html) == Dedup(html.items)

\* _extract_item_keys
ExtractItemKeys(html) == Take(Dedup(html.items), KeysCap)

\* --------------------------------------------------------------- extraction
\* _extract_count_from_text: the greatest number among the keyword lines
ExtractCountFromText(text) ==
    LET vals == {IntOf(text[i].num) : i \in {j \in DOMAIN text : text[j].kw /\ ~IsNone(text[j].num)}}
    IN  IF vals = {} THEN NoneVal ELSE Some(CHOOSE v \in vals : \A w \in vals : w <= v)

\* bool(KEYWORDS.search(text))
ContainsKeywords(text) == \E i \in DOMAIN text : text[i].kw

\* _hash_text
HashText(text) == Sha256(text)

\* parsed_count: the "or" chain of the four extractors
ParsedCount(html) ==
    OrElse(OrElse(OrElse(html.gmail, html.title), html.aria), ExtractCountFromText(html.lines))

\* ------------------------------------------------------------------- fetch
\* The validators of a server that sends them: functions of the document.
ETag(html) == <<"etag", html>>
LastModified(html) == <<"modified", html>>

\* What the plain HTTP request ends with: an exception (timeout, connection
\* error, raise_for_status), a 304, or a response with headers and a body.
\* A server either sends ETag and Last-Modified or sends neither.
HttpResponse(validators, html) ==
    [kind |-> "ok",
     etag |-> IF validators THEN ETag(html) ELSE EmptyStr,
     last_modified |-> IF validators THEN LastModified(html) ELSE EmptyStr,
     html |-> html]
HttpFailure(kind) == [kind |-> kind, etag |-> EmptyStr, last_modified |-> EmptyStr, html |-> EmptyHtml]
HttpOutcomes(validators) ==
    {HttpFailure("error"), HttpFailure("304")} \cup {HttpResponse(validators, h) : h \in Htmls}

\* _load_previous_fingerprint
LoadPreviousFingerprint(extra) ==
    IF IsNone(extra.fingerprint)
    THEN [etag |-> EmptyStr, last_modified |-> EmptyStr, body_hash |-> EmptyStr]
    ELSE [etag |-> extra.fingerprint[1].etag,
          last_modified |-> extra.fingerprint[1].last_modified,
          body_hash |-> extra.fingerprint[1].body_hash]

\* cond_headers: the conditional headers the request carries
CondHeaders(extra) ==
    LET prev == LoadPreviousFingerprint(extra)
    IN  (IF prev.etag # EmptyStr THEN {"If-None-Match"} ELSE {})
        \cup (IF prev.last_modified # EmptyStr THEN {"If-Modified-Since"} ELSE {})

\* _fingerprint_response
FingerprintResponse(resp) ==
    [etag |-> resp.etag, last_modified |-> resp.last_modified, body_hash |-> Sha256(resp.content)]

\* _FakeResp: no headers, the rendered text as body
FakeResp(html) == [etag |-> EmptyStr, last_modified |-> EmptyStr, content |-> html]

\* a fetch section whose render runs for rendered sources only
FetchNoRecovery(use_rendered, http, short_html, long_html) ==
    IF http.kind = "304"
    THEN [status |-> "304", html_text |-> NoneVal, resp_for_fp |-> NoneVal,
          http |-> "304", render |-> "skipped"]
    ELSE
    LET html1 == IF http.kind = "ok" THEN <<http.html>> ELSE NoneVal
        resp1 == IF http.kind = "ok"
                 THEN <<[etag |-> http.etag, last_modified |-> http.last_modified, content |-> http.html]>>
                 ELSE NoneVal
        render == use_rendered
        \* html_text = long_html or short_html or html_text
        html2 == IF ~render THEN html1
                 ELSE IF ~long_html.empty THEN <<long_html>>
                 ELSE IF ~short_html.empty THEN <<short_html>>
                 ELSE html1
        \* if html_text: resp_for_fp = _FakeResp(html_text)
        resp2 == IF render /\ ~IsNone(html2) /\ ~html2[1].empty THEN <<FakeResp(html2[1])>> ELSE resp1
        ran == IF ~render THEN "skipped"
               ELSE IF long_html.empty /\ short_html.empty THEN "failed"
               ELSE "ok"
    IN  IF IsNone(html2) \/ IsNone(resp2)
        THEN [status |-> "failed", html_text |-> NoneVal, resp_for_fp |-> NoneVal,
              http |-> http.kind, render |-> ran]
        ELSE [status |-> "ok", html_text |-> html2, resp_for_fp |-> resp2,
              http |-> http.kind, render |-> ran]

\* The fetch section of check_source: html_text and resp_for_fp, or the
\* early return.  html_text and resp_for_fp are Optional: <<>> or <<value>>.
\* http tells what the request ended with, render whether the render ran
\* and whether it returned a document.
Fetch(use_rendered, http, short_html, long_html) ==
    IF http.kind = "304"
    THEN [status |-> "304", html_text |-> NoneVal, resp_for_fp |-> NoneVal,
          http |-> "304", render |-> "skipped"]
    ELSE
    LET html1 == IF http.kind = "ok" THEN <<http.html>> ELSE NoneVal
        resp1 == IF http.kind = "ok"
                 THEN <<[etag |-> http.etag, last_modified |-> http.last_modified, content |-> http.html]>>
                 ELSE NoneVal
        render == use_rendered \/ IsNone(html1)
        \* html_text = long_html or short_html or html_text
        html2 == IF ~render THEN html1
                 ELSE IF ~long_html.empty THEN <<long_html>>
                 ELSE IF ~short_html.empty THEN <<short_html>>
                 ELSE html1
        \* if html_text: resp_for_fp = _FakeResp(html_text)
        resp2 == IF render /\ ~IsNone(html2) /\ ~html2[1].empty THEN <<FakeResp(html2[1])>> ELSE resp1
        ran == IF ~render THEN "skipped"
               ELSE IF long_html.empty /\ short_html.empty THEN "failed"
               ELSE "ok"
    IN  IF IsNone(html2) \/ IsNone(resp2)
        THEN [status |-> "failed", html_text |-> NoneVal, resp_for_fp |-> NoneVal,
              http |-> http.kind, render |-> ran]
        ELSE [status |-> "ok", html_text |-> html2, resp_for_fp |-> resp2,
              http |-> http.kind, render |-> ran]

\* What the two browser snapshots return ("" when the render failed).  The
\* short snapshot's text is read only when the long one is empty (line 666;
\* the count parsed from the snapshots is overwritten at line 713).
RenderOutcomes ==
    {<<EmptyHtml, l>> : l \in Pages} \cup {<<s, EmptyHtml>> : s \in Htmls}

\* The environment's answers to one check, by the server's use of validators
\* and by extra_config.rendered.  The request is always sent first; the
\* render runs when rendered is set or the request failed, and never after a
\* 304.  A response whose body and headers the render replaces (lines 666,
\* 675) is represented by the one with an empty body.
FetchInputs ==
    [validators \in BOOLEAN, use_rendered \in BOOLEAN |->
        {[http |-> h, short |-> EmptyHtml, long |-> EmptyHtml] :
            h \in {g \in HttpOutcomes(validators) : use_rendered \/ g.kind # "error"}}
        \cup {[http |-> h, short |-> r[1], long |-> r[2]] :
                h \in {g \in HttpOutcomes(validators) :
                         /\ g.kind # "304"
                         /\ g.html = EmptyHtml
                         /\ use_rendered \/ g.kind = "error"},
                r \in {q \in RenderOutcomes : use_rendered => (~q[1].empty \/ ~q[2].empty)}}]

\* what the fetch section of check_source can end with
Fetched ==
    [validators \in BOOLEAN, use_rendered \in BOOLEAN |->
        {Fetch(use_rendered, in.http, in.short, in.long) : in \in FetchInputs[validators, use_rendered]}]

\* ------------------------------------------------------------ the baseline
\* extra_config of a source that was never checked ("" = key absent)
NewExtra(rendered) ==
    [rendered |-> rendered, fingerprint |-> NoneVal, last_count |-> NoneVal,
     last_hash |-> EmptyStr, mode |-> "", seen_keys |-> <<>>]

\* a _store_fingerprint that keeps a fingerprint already stored
StoreFingerprintOnce(extra, fp, now) ==
    IF ~IsNone(extra.fingerprint) THEN extra
    ELSE [extra EXCEPT !.fingerprint =
            <<[etag |-> fp.etag, last_modified |-> fp.last_modified,
               body_hash |-> fp.body_hash, saved_at |-> now]>>]

\* a _store_fingerprint that starts from a dict without the rendered flag
StoreFingerprintUnrendered(extra, fp, now) ==
    [extra EXCEPT !.rendered = FALSE,
                  !.fingerprint =
        <<[etag |-> fp.etag, last_modified |-> fp.last_modified,
           body_hash |-> fp.body_hash, saved_at |-> now]>>]

\* _store_fingerprint
StoreFingerprint(extra, fp, now) ==
    [extra EXCEPT !.fingerprint =
        <<[etag |-> fp.etag, last_modified |-> fp.last_modified,
           body_hash |-> fp.body_hash, saved_at |-> now]>>]

\* cur_mode
CurMode(extra) == IF extra.rendered THEN "rendered" ELSE "requests"
\* prev_mode = extra.get("mode") or "requests"
PrevMode(extra) == IF extra.mode = "" THEN "requests" ELSE extra.mode

\* first_baseline
FirstBaseline(extra) ==
    LET prev == LoadPreviousFingerprint(extra)
    IN  /\ prev.etag = EmptyStr
        /\ prev.last_modified = EmptyStr
        /\ prev.body_hash = EmptyStr
        /\ IsNone(extra.last_count)

\* a baseline condition that ignores the fetch mode
FirstBaselineOnly(extra) == FirstBaseline(extra)

\* the condition of the silent baseline
NeedsBaseline(extra) == FirstBaseline(extra) \/ PrevMode(extra) # CurMode(extra)

\* a baseline branch that forgets extra["mode"] = cur_mode
BaselineExtraNoMode(extra, fp, parsed_count, text_hash, now) ==
    LET e1 == StoreFingerprint(extra, fp, now)
    IN  IF ~IsNone(parsed_count)
        THEN [e1 EXCEPT !.last_count = Some(IntOf(parsed_count)), !.last_hash = EmptyStr]
        ELSE [e1 EXCEPT !.last_hash = text_hash, !.last_count = NoneVal]

\* a baseline branch without the two pop calls
BaselineExtraKeepsOther(extra, fp, parsed_count, text_hash, now) ==
    LET e1 == StoreFingerprint(extra, fp, now)
        e2 == IF ~IsNone(parsed_count)
              THEN [e1 EXCEPT !.last_count = Some(IntOf(parsed_count))]
              ELSE [e1 EXCEPT !.last_hash = text_hash]
    IN  [e2 EXCEPT !.mode = CurMode(extra)]

\* the body of the baseline branch: extra as saved
BaselineExtra(extra, fp, parsed_count, text_hash, now) ==
    LET e1 == StoreFingerprint(extra, fp, now)
        e2 == IF ~IsNone(parsed_count)
              THEN [e1 EXCEPT !.last_count = Some(IntOf(parsed_count)), !.last_hash = EmptyStr]
              ELSE [e1 EXCEPT !.last_hash = text_hash, !.last_count = NoneVal]
    IN  [e2 EXCEPT !.mode = CurMode(extra)]

\* a count row whose meta records the new count as the previous one
CountNotificationNowAsPrev(prev_count, parsed_count, now) ==
    [detected_at |-> now, seen |-> FALSE, played |-> FALSE,
     meta |-> [detector |-> "count", prev |-> Some(IntOf(parsed_count)),
               now |-> Some(IntOf(parsed_count)), keywords |-> FALSE]]

\* Notification.objects.create of the count detector
CountNotification(prev_count, parsed_count, now) ==
    [detected_at |-> now, seen |-> FALSE, played |-> FALSE,
     meta |-> [detector |-> "count", prev |-> Some(IntOf(prev_count)),
               now |-> Some(IntOf(parsed_count)), keywords |-> FALSE]]

\* Notification.objects.create of the text-hash detector
TextHashNotification(now) ==
    [detected_at |-> now, seen |-> FALSE, played |-> FALSE,
     meta |-> [detector |-> "text-hash", prev |-> NoneVal, now |-> NoneVal, keywords |-> TRUE]]

\* int(parsed_count) >= int(prev_count)
CountNotDecreased(parsed_count, prev_count) == IntOf(parsed_count) >= IntOf(prev_count)

\* int(parsed_count) > int(prev_count)
CountIncreased(parsed_count, prev_count) == IntOf(parsed_count) > IntOf(prev_count)

\* a count detector that keeps the highest count seen as last_count
CountDetectorKeepsHighest(extra, parsed_count, now) ==
    LET prev_count == extra.last_count
    IN  IF IsNone(parsed_count) THEN [extra |-> extra, rows |-> <<>>]
        ELSE IF IsNone(prev_count)
        THEN [extra |-> [extra EXCEPT !.last_count = Some(IntOf(parsed_count))], rows |-> <<>>]
        ELSE IF CountIncreased(parsed_count, prev_count)
        THEN [extra |-> [extra EXCEPT !.last_count = Some(IntOf(parsed_count))],
              rows |-> <<CountNotification(prev_count, parsed_count, now)>>]
        ELSE [extra |-> extra, rows |-> <<>>]

\* a count detector that pops last_hash as the baseline branch does
CountDetectorClearsHash(extra, parsed_count, now) ==
    LET prev_count == extra.last_count
    IN  IF IsNone(parsed_count) THEN [extra |-> extra, rows |-> <<>>]
        ELSE IF IsNone(prev_count) \/ ~CountIncreased(parsed_count, prev_count)
        THEN [extra |-> [extra EXCEPT !.last_count = Some(IntOf(parsed_count)),
                                      !.last_hash = EmptyStr],
              rows |-> <<>>]
        ELSE [extra |-> [extra EXCEPT !.last_count = Some(IntOf(parsed_count)),
                                      !.last_hash = EmptyStr],
              rows |-> <<CountNotification(prev_count, parsed_count, now)>>]

\* the count detector: extra after it and the rows it created
CountDetector(extra, parsed_count, now) ==
    LET prev_count == extra.last_count
    IN  IF IsNone(parsed_count) THEN [extra |-> extra, rows |-> <<>>]
        ELSE IF IsNone(prev_count)
        THEN [extra |-> [extra EXCEPT !.last_count = Some(IntOf(parsed_count))], rows |-> <<>>]
        ELSE IF CountIncreased(parsed_count, prev_count)
        THEN [extra |-> [extra EXCEPT !.last_count = Some(IntOf(parsed_count))],
              rows |-> <<CountNotification(prev_count, parsed_count, now)>>]
        ELSE [extra |-> [extra EXCEPT !.last_count = Some(IntOf(parsed_count))], rows |-> <<>>]

\* a fallback that runs whatever the count detector did
FallbackAlways(created, parsed_count) == TRUE

\* if not created and parsed_count is None
FallbackApplies(created, parsed_count) == ~created /\ IsNone(parsed_count)

\* a comparison that looks at the keywords only
KeywordsPresent(contains_keywords, text_hash, prev_text_hash) == contains_keywords

\* contains_keywords and text_hash != prev_text_hash
KeywordTextChanged(contains_keywords, text_hash, prev_text_hash) ==
    contains_keywords /\ text_hash # prev_text_hash

\* a fallback that stores the new hash only when it notifies
HashDetectorKeepsHash(extra, text, now) ==
    LET prev_text_hash == extra.last_hash
        text_hash == HashText(text)
    IN  IF prev_text_hash = EmptyStr
        THEN [extra |-> [extra EXCEPT !.last_hash = text_hash], rows |-> <<>>]
        ELSE IF KeywordTextChanged(ContainsKeywords(text), text_hash, prev_text_hash)
        THEN [extra |-> [extra EXCEPT !.last_hash = text_hash], rows |-> <<TextHashNotification(now)>>]
        ELSE [extra |-> extra, rows |-> <<>>]

\* the text-hash fallback
HashDetector(extra, text, now) ==
    LET prev_text_hash == extra.last_hash
        text_hash == HashText(text)
    IN  IF prev_text_hash = EmptyStr
        THEN [extra |-> [extra EXCEPT !.last_hash = text_hash], rows |-> <<>>]
        ELSE IF KeywordTextChanged(ContainsKeywords(text), text_hash, prev_text_hash)
        THEN [extra |-> [extra EXCEPT !.last_hash = text_hash], rows |-> <<TextHashNotification(now)>>]
        ELSE [extra |-> [extra EXCEPT !.last_hash = text_hash], rows |-> <<>>]

\* Lines 705-812 are in no try block.  Past the baseline branch a parsed
\* count is compared with int(prev_count) (line 764), which raises on a
\* last_count that is no number.
Raises(extra, html) ==
    /\ ~NeedsBaseline(extra)
    /\ ~IsNone(ParsedCount(html))
    /\ ~IsNone(extra.last_count)
    /\ IntRaises(extra.last_count)

\* an evaluation that stores the hash of the text after the count detector too
EvaluateRefreshesHash(extra, html, resp, now) ==
    LET fp == FingerprintResponse(resp)
        text == html.lines
        parsed_count == ParsedCount(html)
        text_hash == HashText(text)
    IN  IF NeedsBaseline(extra)
        THEN [extra |-> BaselineExtra(extra, fp, parsed_count, text_hash, now),
              rows |-> <<>>, ret |-> "baseline"]
        ELSE
        LET c == CountDetector(extra, parsed_count, now)
            h == IF FallbackApplies(c.rows # <<>>, parsed_count)
                 THEN HashDetector(c.extra, text, now)
                 ELSE [extra |-> [c.extra EXCEPT !.last_hash = text_hash], rows |-> <<>>]
            e1 == StoreFingerprint(h.extra, fp, now)
        IN  [extra |-> [e1 EXCEPT !.mode = CurMode(extra)],
             rows |-> c.rows \o h.rows, ret |-> "evaluated"]

\* check_source from "fingerprint + parse" to its return: the extra it
\* saves, the rows it creates and the return point
Evaluate(extra, html, resp, now) ==
    LET fp == FingerprintResponse(resp)
        text == html.lines
        parsed_count == ParsedCount(html)
        text_hash == HashText(text)
    IN  IF NeedsBaseline(extra)
        THEN [extra |-> BaselineExtra(extra, fp, parsed_count, text_hash, now),
              rows |-> <<>>, ret |-> "baseline"]
        ELSE
        LET c == CountDetector(extra, parsed_count, now)
            h == IF FallbackApplies(c.rows # <<>>, parsed_count)
                 THEN HashDetector(c.extra, text, now)
                 ELSE [extra |-> c.extra, rows |-> <<>>]
            e1 == StoreFingerprint(h.extra, fp, now)
        IN  [extra |-> [e1 EXCEPT !.mode = CurMode(extra)],
             rows |-> c.rows \o h.rows, ret |-> "evaluated"]

\* ------------------------------------------------------------------- state
VARIABLES
    validators,     \* environment: the server sends ETag and Last-Modified
    enabled,        \* NotificationSource.enabled
    extra_config,   \* NotificationSource.extra_config
    last_checked,   \* NotificationSource.last_checked (None until the first check)
    inserted,       \* the rows the latest execution inserted into the Notification
                    \* table (check_source only inserts into it and never reads it)
    clock,          \* what timezone.now() returns; instants are only compared
                    \* for equality, so the clock counts modulo 2
    poll,           \* history: the latest execution: its return point and value,
                    \* first_baseline, prev_mode != cur_mode, and whether it parsed
                    \* the response the evaluating execution before it parsed
    evaluated,      \* history: the response the latest evaluating execution parsed
    fetched,        \* history: what the request of the latest execution ended
                    \* with, and whether its render ran and returned a document
    followed,       \* history: how far the evaluating executions have followed
                    \* Scenario since the source was created, and which of them
                    \* inserted a row
    soup,           \* the document _extract_item_keys was called on (None before)
    item_keys,      \* the list it returned
    sources,        \* the NotificationSource table: the row of each source
    table,          \* the Notification table
    task,           \* the check_source execution in flight for each source
    view,           \* the source_import_cookies_by_key request in flight
    count,          \* what the extractor chain made of soup (None before)
    session,        \* the requests a session sent for one sess.get
    profile,        \* the user_data_dir each source's render launched with
    response        \* what an endpoint answered to the latest request

\* the source whose check_source executions Spec and SpecKeys follow
mainVars ==
    <<validators, enabled, extra_config, last_checked, inserted, clock, poll, evaluated,
      fetched, followed, soup, item_keys>>

\* the tables as check_source, the views and the fetch helpers see them step by step
sideVars == <<sources, table, task, view, count, session, profile, response>>

vars ==
    <<validators, enabled, extra_config, last_checked, inserted, clock, poll, evaluated,
      fetched, followed, soup, item_keys, sources, table, task, view, count, session,
      profile, response>>

\* the counts of the scenario "2, 2, 5, 3, 3, 6"
Scenario == <<2, 2, 5, 3, 3, 6>>
NotFollowed == [live |-> FALSE, pos |-> 0, events |-> {}]
Follow(f, parsed_count, rows) ==
    IF /\ f.live
       /\ f.pos < Len(Scenario)
       /\ parsed_count = Some(Scenario[f.pos + 1])
    THEN [live |-> TRUE, pos |-> f.pos + 1,
          events |-> IF rows # <<>> THEN f.events \cup {f.pos + 1} ELSE f.events]
    ELSE NotFollowed

NoPoll == [ret |-> "none", result |-> FALSE, first |-> FALSE, switched |-> FALSE, same |-> FALSE]
\* an execution that returned False before it parsed anything
Unparsed(ret) == [NoPoll EXCEPT !.ret = ret]

\* no request was sent and no browser was started
NoFetch == [http |-> "unsent", render |-> "skipped"]

\* nothing of the step-by-step view is in use
SideIdle ==
    /\ sources = <<>>
    /\ table = <<>>
    /\ task = <<>>
    /\ view = NoneVal
    /\ count = NoneVal
    /\ session = NoneVal
    /\ profile = <<>>
    /\ response = NoneVal

Init ==
    /\ validators \in BOOLEAN
    /\ enabled = TRUE
    /\ extra_config \in {NewExtra(r) : r \in BOOLEAN}
    /\ last_checked = NoneVal
    /\ inserted = <<>>
    /\ clock = 0
    /\ poll = NoPoll
    /\ evaluated = NoneVal
    /\ fetched = NoFetch
    /\ followed = [live |-> TRUE, pos |-> 0, events |-> {}]
    /\ soup = NoneVal
    /\ item_keys = NoneVal
    /\ SideIdle

\* source.last_checked = timezone.now(); source.save(update_fields=["last_checked"])
TouchLastChecked == last_checked' = Some(clock)

\* _save_extra
SaveExtra(extra) ==
    /\ extra_config' = extra
    /\ last_checked' = Some(clock)

\* a 304 branch that also stamps the stored fingerprint
NotModifiedStampsFingerprint ==
    /\ SaveExtra([extra_config EXCEPT !.fingerprint = <<[@[1] EXCEPT !.saved_at = clock]>>])
    /\ poll' = Unparsed("304")
    /\ inserted' = <<>>
    /\ UNCHANGED <<evaluated, followed>>

\* lines 627-631: 304 Not Modified
NotModified ==
    /\ TouchLastChecked
    /\ poll' = Unparsed("304")
    /\ inserted' = <<>>
    /\ UNCHANGED <<extra_config, evaluated, followed>>

\* a failure branch that drops the stored baseline
FetchFailedDropsBaseline ==
    /\ SaveExtra(NewExtra(extra_config.rendered))
    /\ poll' = Unparsed("failed")
    /\ inserted' = <<>>
    /\ UNCHANGED <<evaluated, followed>>

\* lines 700-703: no fetch path yielded content
FetchFailed ==
    /\ TouchLastChecked
    /\ poll' = Unparsed("failed")
    /\ inserted' = <<>>
    /\ UNCHANGED <<extra_config, evaluated, followed>>

\* lines 705-812: parse, evaluate, persist
Evaluated(html, resp) ==
    \E r \in {Evaluate(extra_config, html, resp, clock)} :
        /\ inserted' = r.rows
        /\ SaveExtra(r.extra)
        /\ evaluated' = <<[etag |-> resp.etag, last_modified |-> resp.last_modified, html |-> html]>>
        /\ poll' = [ret |-> r.ret, result |-> r.rows # <<>>,
                    first |-> FirstBaseline(extra_config),
                    switched |-> PrevMode(extra_config) # CurMode(extra_config),
                    same |-> evaluated' = evaluated]
        /\ followed' = Follow(followed, ParsedCount(html), r.rows)

\* the exception leaves check_source: nothing after line 764 runs
Raised ==
    /\ poll' = Unparsed("raised")
    /\ inserted' = <<>>
    /\ UNCHANGED <<extra_config, last_checked, evaluated, followed>>

\* check_source(source_id) from the end f of its fetch section on
CheckSourceWith(f) ==
    IF f.status = "304" THEN NotModified
    ELSE IF f.status = "failed" THEN FetchFailed
    ELSE IF Raises(extra_config, f.html_text[1]) THEN Raised
    ELSE Evaluated(f.html_text[1], f.resp_for_fp[1])

\* a lookup failure that still stamps last_checked
SourceNotFoundTouches ==
    /\ TouchLastChecked
    /\ poll' = Unparsed("disabled")
    /\ inserted' = <<>>
    /\ fetched' = NoFetch
    /\ UNCHANGED <<extra_config, evaluated, followed>>

\* lines 581-584: no enabled source has this id
SourceNotFound ==
    /\ poll' = Unparsed("disabled")
    /\ inserted' = <<>>
    /\ fetched' = NoFetch
    /\ UNCHANGED <<extra_config, last_checked, evaluated, followed>>

\* One execution of the task; the next one reads another instant.  A server
\* answers 304 only to a request that carried a conditional header.
CheckSourceFrom(answers) ==
    /\ clock' = 1 - clock
    /\ UNCHANGED <<validators, enabled, soup, item_keys>>
    /\ UNCHANGED sideVars
    /\ IF ~enabled
       THEN SourceNotFound
       ELSE \E f \in answers :
               /\ f.status = "304" => CondHeaders(extra_config) # {}
               /\ fetched' = [http |-> f.http, render |-> f.render]
               /\ CheckSourceWith(f)

\* check_source on a site that serves Pages
CheckSource == CheckSourceFrom(Fetched[validators, extra_config.rendered])

\* the admin site saves the source with another extra_config.rendered
AdminSetRendered ==
    /\ extra_config' = [extra_config EXCEPT !.rendered = ~extra_config.rendered]
    /\ followed' = NotFollowed
    /\ UNCHANGED <<validators, enabled, last_checked, inserted, clock, poll, evaluated, fetched,
                   soup, item_keys>>
    /\ UNCHANGED sideVars

\* scripts/update_extra.py: rendered on, the baseline keys popped
UpdateExtra ==
    /\ extra_config' = [NewExtra(TRUE) EXCEPT !.seen_keys = extra_config.seen_keys]
    /\ followed' = NotFollowed
    /\ UNCHANGED <<validators, enabled, last_checked, inserted, clock, poll, evaluated, fetched,
                   soup, item_keys>>
    /\ UNCHANGED sideVars

\* The admin site disables or deletes the source.  check_source changes
\* nothing on such a source, so enabling it again gives back the
\* NotificationSource row as it was before.
AdminDisable ==
    /\ enabled
    /\ enabled' = FALSE
    /\ UNCHANGED <<validators, extra_config, last_checked, inserted, clock, poll, evaluated,
                   fetched, followed, soup, item_keys>>
    /\ UNCHANGED sideVars

Next ==
    \/ CheckSource
    \/ AdminSetRendered
    \/ UpdateExtra
    \/ AdminDisable

Spec == Init /\ [][Next]_vars

\* ------------------------------------------- a site that lists its messages
\* A source made through the API, whose extra_config is what the client
\* posted: none or one of the keys the site lists.
InitKeys ==
    /\ validators = FALSE
    /\ enabled = TRUE
    /\ extra_config \in {[NewExtra(FALSE) EXCEPT !.seen_keys = k] : k \in {<<>>, Run(1)}}
    /\ last_checked = NoneVal
    /\ inserted = <<>>
    /\ clock = 0
    /\ poll = NoPoll
    /\ evaluated = NoneVal
    /\ fetched = NoFetch
    /\ followed = NotFollowed
    /\ soup = NoneVal
    /\ item_keys = NoneVal
    /\ SideIdle

\* check_source on the site: the request is answered with one of ItemPages
CheckSourceItems ==
    CheckSourceFrom({Fetch(extra_config.rendered, HttpResponse(validators, h), EmptyHtml, EmptyHtml) :
                        h \in ItemPages})

\* one call of _extract_item_keys
ExtractItemKeysCall ==
    /\ IsNone(soup)
    /\ \E s \in KeySoups :
          /\ soup' = Some(s)
          /\ item_keys' = ExtractItemKeys(s)
    /\ UNCHANGED <<validators, enabled, extra_config, last_checked, inserted, clock, poll,
                   evaluated, fetched, followed>>
    /\ UNCHANGED sideVars

NextKeys ==
    \/ CheckSourceItems
    \/ ExtractItemKeysCall

SpecKeys == InitKeys /\ [][NextKeys]_vars

\* ------------------------------------- a source with a posted extra_config
\* A source made through the API (SourceListCreateAPI), whose extra_config is
\* what the client posted: a last_count that is a number or is none.
InitPosted ==
    /\ validators = FALSE
    /\ enabled = TRUE
    /\ extra_config \in {[NewExtra(FALSE) EXCEPT !.last_count = c] : c \in {NotANumber, Some(1)}}
    /\ last_checked = NoneVal
    /\ inserted = <<>>
    /\ clock = 0
    /\ poll = NoPoll
    /\ evaluated = NoneVal
    /\ fetched = NoFetch
    /\ followed = NotFollowed
    /\ soup = NoneVal
    /\ item_keys = NoneVal
    /\ SideIdle

NextPosted ==
    \/ CheckSource
    \/ AdminDisable

SpecPosted == InitPosted /\ [][NextPosted]_vars

\* ---------------------------------------------- check_source step by step
\* Two sources of two users.  Each check_source execution is followed
\* through the points at which it reads or writes a table: the load of its
\* row, the committed insert into the Notification table, and _save_extra.
Sources == {"A", "B"}

\* how many rows the Notification table holds at most
MaxRows == 3

\* the cookie jars a client can post
Jars == {1}

\* the keys source_import_cookies_by_key writes, absent
NoCookies == [cookies |-> NoneVal, headers |-> {}]

\* the row of a source as source_create_by_key makes it
NewSource == [extra_config |-> NoCookies @@ NewExtra(FALSE), last_checked |-> NoneVal]

\* the pages the two sites serve: a title that shows a count of 1 or 2
StepPages == {h \in Pages : h.title \in {Some(1), Some(2)} /\ h.lines = <<>>}

\* no execution is in flight; last tells how the latest one ended
Idle(last) == [pc |-> "idle", extra |-> NoneVal, last |-> last]

InitSteps ==
    /\ validators = FALSE
    /\ enabled = TRUE
    /\ extra_config = NewExtra(FALSE)
    /\ last_checked = NoneVal
    /\ inserted = <<>>
    /\ clock = 0
    /\ poll = NoPoll
    /\ evaluated = NoneVal
    /\ fetched = NoFetch
    /\ followed = NotFollowed
    /\ soup = NoneVal
    /\ item_keys = NoneVal
    /\ sources = [s \in Sources |-> NewSource]
    /\ table = <<>>
    /\ task = [s \in Sources |-> Idle("none")]
    /\ view = NoneVal
    /\ count = NoneVal
    /\ session = NoneVal
    /\ profile = <<>>
    /\ response = NoneVal

\* lines 581-595: the execution reads its row
Load(s) ==
    /\ task[s].pc = "idle"
    /\ Len(table) < MaxRows
    /\ task' = [task EXCEPT ![s] = [pc |-> "loaded", extra |-> Some(sources[s].extra_config),
                                    last |-> "none"]]
    /\ UNCHANGED <<sources, table, view>>
    /\ UNCHANGED <<mainVars, count, session, profile, response>>

\* an insert of the rows of an execution into the Notification table:
\* committed when the "with transaction.atomic()" block of lines 765-775 or
\* 790-801 is left.  baseline is history: whether the execution that
\* inserted the row has still to call _save_extra ("pending"), has called it
\* ("committed") or was stopped before ("lost").
Inserted(s, inserts) ==
    [i \in 1..Len(inserts) |-> [source |-> s, row |-> inserts[i], baseline |-> "pending"]]

\* the rows of the execution in flight for s, marked
Settle(s, as) ==
    [i \in 1..Len(table) |->
        IF table[i].source = s /\ table[i].baseline = "pending"
        THEN [table[i] EXCEPT !.baseline = as]
        ELSE table[i]]

\* lines 597-805: the fetch, the parse and the detectors, up to the point
\* before the baseline is persisted
Detect(s) ==
    /\ task[s].pc = "loaded"
    /\ \E h \in StepPages :
          LET f == Fetch(FALSE, HttpResponse(FALSE, h), EmptyHtml, EmptyHtml)
              r == Evaluate(task[s].extra[1], f.html_text[1], f.resp_for_fp[1], clock)
          IN  /\ table' = table \o Inserted(s, r.rows)
              /\ task' = [task EXCEPT ![s] = [pc |-> "detected", extra |-> Some(r.extra),
                                              last |-> "none"]]
    /\ UNCHANGED <<sources, view>>
    /\ UNCHANGED <<mainVars, count, session, profile, response>>

\* a _save_extra that saves the extra_config of every row
SaveExtraEveryRow(s, extra) ==
    sources' = [t \in Sources |-> [extra_config |-> extra, last_checked |-> Some(clock)]]

\* _save_extra on the row the execution loaded
SaveExtraRow(s, extra) ==
    sources' = [sources EXCEPT ![s] = [extra_config |-> extra, last_checked |-> Some(clock)]]

\* lines 754 and 810: _save_extra(source, extra), then the return
Save(s) ==
    /\ task[s].pc = "detected"
    /\ SaveExtraRow(s, task[s].extra[1])
    /\ table' = Settle(s, "committed")
    /\ task' = [task EXCEPT ![s] = Idle("saved")]
    /\ UNCHANGED view
    /\ UNCHANGED <<mainVars, count, session, profile, response>>

\* the worker is stopped (time limit, restart, lost database connection)
\* between two steps of the execution
Interrupt(s) ==
    /\ task[s].pc # "idle"
    /\ task' = [task EXCEPT ![s] = Idle("interrupted")]
    /\ table' = Settle(s, "lost")
    /\ UNCHANGED <<sources, view>>
    /\ UNCHANGED <<mainVars, count, session, profile, response>>

NextSteps ==
    \E s \in Sources :
        \/ Load(s)
        \/ Detect(s)
        \/ Save(s)
        \/ Interrupt(s)

SpecSteps == InitSteps /\ [][NextSteps]_vars

\* ------------------------------------- cookie import during a check
\* lines 636-640 of views.py: the view reads the row of the source
ImportGet(s) ==
    /\ IsNone(view)
    /\ \E jar \in Jars :
          view' = Some([source |-> s, extra |-> sources[s].extra_config, cookies |-> jar])
    /\ UNCHANGED <<sources, table, task>>
    /\ UNCHANGED <<mainVars, count, session, profile, response>>

\* lines 641-647: extra["cookies"], extra["headers"], save(update_fields=["extra_config"])
ImportSave ==
    /\ ~IsNone(view)
    /\ LET s == view[1].source
           extra == [view[1].extra EXCEPT !.cookies = Some(view[1].cookies),
                                          !.headers = @ \cup {"User-Agent"}]
       IN  sources' = [sources EXCEPT ![s].extra_config = extra]
    /\ view' = NoneVal
    /\ UNCHANGED <<table, task>>
    /\ UNCHANGED <<mainVars, count, session, profile, response>>

NextRace ==
    \/ \E s \in Sources :
          \/ Load(s)
          \/ Detect(s)
          \/ Save(s)
          \/ ImportGet(s)
    \/ ImportSave

SpecRace == InitSteps /\ [][NextRace]_vars

\* ------------------------------------------------- the browser profile
\* the user who owns each source
Owner == [s \in Sources |-> IF s = "A" THEN "u1" ELSE "u2"]

\* os.path.join(base, "desktop_client", ".pw_profile")
DefaultProfile == "desktop_client/.pw_profile"

\* The values of extra_config["user_data_dir"] a source is given: the key
\* is absent (""), or it names a directory of the source's owner.
UserDataDirs(s) == {"", "profiles/" \o Owner[s], "profiles/" \o Owner[s] \o "/" \o s}

\* the row of a rendered source with that user_data_dir
RenderedSource(dir) ==
    [extra_config |-> [user_data_dir |-> dir] @@ NoCookies @@ NewExtra(TRUE),
     last_checked |-> NoneVal]

\* lines 404-407: the profile _fetch_rendered_html launches with
UserDataDir(user_data_dir) ==
    IF user_data_dir = "" THEN DefaultProfile ELSE user_data_dir

InitProfile ==
    /\ validators = FALSE
    /\ enabled = TRUE
    /\ extra_config = NewExtra(FALSE)
    /\ last_checked = NoneVal
    /\ inserted = <<>>
    /\ clock = 0
    /\ poll = NoPoll
    /\ evaluated = NoneVal
    /\ fetched = NoFetch
    /\ followed = NotFollowed
    /\ soup = NoneVal
    /\ item_keys = NoneVal
    /\ sources \in [Sources -> {RenderedSource(d) : d \in UNION {UserDataDirs(s) : s \in Sources}}]
    /\ \A s \in Sources : sources[s].extra_config.user_data_dir \in UserDataDirs(s)
    /\ table = <<>>
    /\ task = <<>>
    /\ view = NoneVal
    /\ count = NoneVal
    /\ session = NoneVal
    /\ profile = [s \in Sources |-> ""]
    /\ response = NoneVal

\* lines 643-662: check_source of s renders; launch_persistent_context (423-424)
FetchRenderedHtml(s) ==
    /\ profile' = [profile EXCEPT ![s] = UserDataDir(sources[s].extra_config.user_data_dir)]
    /\ UNCHANGED <<sources, table, task, view>>
    /\ UNCHANGED <<mainVars, count, session, response>>

\* the owner gives the source another user_data_dir
SetUserDataDir(s) ==
    /\ \E d \in UserDataDirs(s) :
          /\ d # sources[s].extra_config.user_data_dir
          /\ sources' = [sources EXCEPT ![s].extra_config.user_data_dir = d]
    /\ UNCHANGED <<table, task, view, profile>>
    /\ UNCHANGED <<mainVars, count, session, response>>

NextProfile ==
    \E s \in Sources :
        \/ FetchRenderedHtml(s)
        \/ SetUserDataDir(s)

SpecProfile == InitProfile /\ [][NextProfile]_vars

\* ------------------------------------------------------ the HTTP session
\* Retry(total=2, connect=2, read=2, status=2, ...)
RetryTotal == 2

\* status_forcelist
StatusForcelist == {429, 500, 502, 503, 504}

\* how one request of the session can end: a connection error, a read
\* error (timeout), or a response with a status code
Attempts ==
    {[kind |-> k, code |-> 0] : k \in {"connect", "read"}}
    \cup {[kind |-> "status", code |-> c] : c \in StatusForcelist \cup {200, 304, 404}}

\* extra.get("timeout"): absent, or a number of seconds
Timeouts == Opt({3, 20})

\* lines 610-614: connect_t, read_t
TimeoutPair(tout) ==
    LET Max(a, b) == IF a >= b THEN a ELSE b
    IN  IF IsNone(tout) THEN <<5, 8>> ELSE <<Max(2, tout[1] \div 2), Max(5, tout[1])>>

\* _build_session: a fresh session, its timeouts, its Retry counters and no
\* request sent; all is history: every request sent so far ended in an error
\* or in a status of the forcelist
BuildSession(tout) ==
    [timeout |-> TimeoutPair(tout), sent |-> 0, total |-> RetryTotal, connect |-> RetryTotal,
     read |-> RetryTotal, status |-> RetryTotal, result |-> "pending", code |-> 0, all |-> TRUE]

\* Retry.increment: the counters after a request that ended as a does
Increment(sess, a) ==
    [sess EXCEPT !.total = @ - 1,
                 !.connect = IF a.kind = "connect" THEN @ - 1 ELSE @,
                 !.read = IF a.kind = "read" THEN @ - 1 ELSE @,
                 !.status = IF a.kind = "status" THEN @ - 1 ELSE @]

\* Retry.is_exhausted
IsExhausted(sess) == \E k \in {sess.total, sess.connect, sess.read, sess.status} : k < 0

\* One request of sess.get(...): it is sent, and it ends as a does.  A
\* response outside the forcelist is returned; an error or a forcelist
\* status is retried until the Retry is exhausted, then the error is raised
\* or (raise_on_status=False) the last response is returned.
SessGetAttempt(sess, a) ==
    LET sent == [sess EXCEPT !.sent = @ + 1]
    IN  IF a.kind = "status" /\ a.code \notin StatusForcelist
        THEN [sent EXCEPT !.result = "returned", !.code = a.code, !.all = FALSE]
        ELSE LET next == Increment(sent, a)
             IN  IF ~IsExhausted(next) THEN next
                 ELSE IF a.kind # "status" THEN [next EXCEPT !.result = "raised"]
                 ELSE [next EXCEPT !.result = "returned", !.code = a.code]

\* lines 621-637: what the request ended with for check_source: the 304
\* return, a response (raise_for_status passed), or the except branch
HttpKind(sess) ==
    IF sess.result = "raised" THEN "error"
    ELSE IF sess.code = 304 THEN "304"
    ELSE IF sess.code >= 400 THEN "error"
    ELSE "ok"

InitSession ==
    /\ validators = FALSE
    /\ enabled = TRUE
    /\ extra_config = NewExtra(FALSE)
    /\ last_checked = NoneVal
    /\ inserted = <<>>
    /\ clock = 0
    /\ poll = NoPoll
    /\ evaluated = NoneVal
    /\ fetched = NoFetch
    /\ followed = NotFollowed
    /\ soup = NoneVal
    /\ item_keys = NoneVal
    /\ sources = <<>>
    /\ table = <<>>
    /\ task = <<>>
    /\ view = NoneVal
    /\ count = NoneVal
    /\ session \in {BuildSession(tout) : tout \in Timeouts}
    /\ profile = <<>>
    /\ response = NoneVal

\* the session sends the request once more
SessGet ==
    /\ session.result = "pending"
    /\ \E a \in Attempts : session' = SessGetAttempt(session, a)
    /\ UNCHANGED <<mainVars, sources, table, task, view, count, profile, response>>

\* the next check builds its own session (line 619)
NextCheck ==
    /\ session.result # "pending"
    /\ \E tout \in Timeouts : session' = BuildSession(tout)
    /\ UNCHANGED <<mainVars, sources, table, task, view, count, profile, response>>

NextSession ==
    \/ SessGet
    \/ NextCheck

SpecSession == InitSession /\ [][NextSession]_vars

\* ------------------------------------------------------ the extractor chain
\* The documents the chain is tried on: every combination of what the four
\* extractors return, a count of 0 included.
ChainPages ==
    [gmail : Opt({0, 1}), title : Opt({0, 1}), aria : Opt({0, 1}), lines : Texts, items : {<<>>},
     empty : {FALSE}]

InitChain ==
    /\ validators = FALSE
    /\ enabled = TRUE
    /\ extra_config = NewExtra(FALSE)
    /\ last_checked = NoneVal
    /\ inserted = <<>>
    /\ clock = 0
    /\ poll = NoPoll
    /\ evaluated = NoneVal
    /\ fetched = NoFetch
    /\ followed = NotFollowed
    /\ soup = NoneVal
    /\ item_keys = NoneVal
    /\ SideIdle

\* lines 707-718: the document is parsed and the chain gives parsed_count
ParseCount ==
    /\ IsNone(soup)
    /\ \E h \in ChainPages :
          /\ soup' = Some(h)
          /\ count' = Some(ParsedCount(h))
    /\ UNCHANGED <<validators, enabled, extra_config, last_checked, inserted, clock, poll,
                   evaluated, fetched, followed, item_keys>>
    /\ UNCHANGED <<sources, table, task, view, session, profile, response>>

NextChain == ParseCount

SpecChain == InitChain /\ [][NextChain]_vars

\* ------------------------------------------- the "active" notification
Users == {"u1", "u2"}

\* The Notification rows of a user that a queryset filter(user=user,
\* <field>=False) selects, by position in the table; detected_at grows with
\* the position.
Filter(user, field) ==
    {i \in DOMAIN table : table[i].user = user /\ ~table[i][field]}

\* order_by("-detected_at").first()
FirstDescending(ids) == CHOOSE i \in ids : \A j \in ids : table[j].detected_at <= table[i].detected_at
\* order_by("detected_at").first()
FirstAscending(ids) == CHOOSE i \in ids : \A j \in ids : table[i].detected_at <= table[j].detected_at

\* the JSON an endpoint answers with: has, and the id of the notification
Answer(endpoint, user, ids, id) ==
    [endpoint |-> endpoint, user |-> user, has |-> ids # {},
     id |-> IF ids = {} THEN NoneVal ELSE Some(id)]

InitActive ==
    /\ validators = FALSE
    /\ enabled = TRUE
    /\ extra_config = NewExtra(FALSE)
    /\ last_checked = NoneVal
    /\ inserted = <<>>
    /\ clock = 0
    /\ poll = NoPoll
    /\ evaluated = NoneVal
    /\ fetched = NoFetch
    /\ followed = NotFollowed
    /\ soup = NoneVal
    /\ item_keys = NoneVal
    /\ sources = <<>>
    /\ table = <<>>
    /\ task = <<>>
    /\ view = NoneVal
    /\ count = NoneVal
    /\ session = NoneVal
    /\ profile = <<>>
    /\ response = NoneVal

\* a check of a source of the user creates a Notification (seen=False, played=False)
CreateNotification(user) ==
    /\ Len(table) < MaxRows
    /\ table' = Append(table, [user |-> user, detected_at |-> Len(table) + 1,
                               seen |-> FALSE, played |-> FALSE])
    /\ UNCHANGED <<mainVars, sources, task, view, count, session, profile, response>>

\* mark_notifications_read_by_key with one id: update(seen=True, played=played)
MarkNotificationsReadByKey(user) ==
    /\ \E i \in DOMAIN table, played \in BOOLEAN :
          /\ table[i].user = user
          /\ table' = [table EXCEPT ![i].seen = TRUE, ![i].played = played]
    /\ UNCHANGED <<mainVars, sources, task, view, count, session, profile, response>>

\* GET /api/notifications/active/
NotificationActiveAPI(user) ==
    /\ LET ids == Filter(user, "played")
       IN  response' = Some(Answer("NotificationActiveAPI", user, ids, FirstDescending(ids)))
    /\ UNCHANGED <<mainVars, sources, table, task, view, count, session, profile>>

\* GET /api/notifications/active_key/
ActiveNotificationByKey(user) ==
    /\ LET ids == Filter(user, "played")
       IN  response' = Some(Answer("active_notification_by_key", user, ids, FirstDescending(ids)))
    /\ UNCHANGED <<mainVars, sources, table, task, view, count, session, profile>>

\* GET /api/active_notification/ (the endpoint the desktop client polls)
ActiveNotification(user) ==
    /\ LET ids == Filter(user, "seen")
       IN  response' = Some(Answer("active_notification", user, ids, FirstAscending(ids)))
    /\ UNCHANGED <<mainVars, sources, table, task, view, count, session, profile>>

NextActive ==
    \E user \in Users :
        \/ CreateNotification(user)
        \/ MarkNotificationsReadByKey(user)
        \/ NotificationActiveAPI(user)
        \/ ActiveNotificationByKey(user)
        \/ ActiveNotification(user)

SpecActive == InitActive /\ [][NextActive]_vars

\* ------------------------------------------------------ the two snapshots
\* what the browser returns for a snapshot: "" or a page whose title shows
\* no count or a count, over any text
SnapshotPages ==
    {EmptyHtml}
    \cup [gmail : {NoneVal}, title : Opt({1, 2, 3}), aria : {NoneVal}, lines : Texts,
          items : {<<>>}, empty : {FALSE}]

\* lines 684-688: tmp_count of one snapshot
TmpCount(h) == OrElse(OrElse(h.title, h.aria), ExtractCountFromText(h.lines))

\* lines 677-696: parsed_count_candidates
ParsedCountCandidates(short_html, long_html) ==
    {IntOf(TmpCount(h)) : h \in {g \in {short_html, long_html} : ~g.empty /\ ~IsNone(TmpCount(g))}}

\* One rendered check up to line 718: the request failed or was answered
\* with a page of its own, the browser returned the two snapshots, and the
\* chain of lines 713-718 ran on html_text.  soup holds the two snapshots,
\* count the parsed_count the evaluator gets (None when the fetch failed).
ParseSnapshots ==
    /\ IsNone(soup)
    /\ \E short_html \in SnapshotPages, long_html \in SnapshotPages :
          LET f == Fetch(TRUE, HttpFailure("error"), short_html, long_html)
          IN  /\ soup' = Some([short |-> short_html, long |-> long_html])
              /\ count' = IF f.status = "ok" THEN Some(ParsedCount(f.html_text[1])) ELSE NoneVal
    /\ UNCHANGED <<validators, enabled, extra_config, last_checked, inserted, clock, poll,
                   evaluated, fetched, followed, item_keys>>
    /\ UNCHANGED <<sources, table, task, view, session, profile, response>>

NextSnapshots == ParseSnapshots

SpecSnapshots == InitChain /\ [][NextSnapshots]_vars

\* ------------------------------------------------------ the desktop client
\* the user whose API key the desktop client is started with
ClientUser == "u1"

\* The client between two polls: no answer at hand; shown is history, the
\* ids of the notifications it has shown in a popup.
ClientIdle(shown) == [pc |-> "idle", data |-> NoneVal, shown |-> shown]

InitClient ==
    /\ validators = FALSE
    /\ enabled = TRUE
    /\ extra_config = NewExtra(FALSE)
    /\ last_checked = NoneVal
    /\ inserted = <<>>
    /\ clock = 0
    /\ poll = NoPoll
    /\ evaluated = NoneVal
    /\ fetched = NoFetch
    /\ followed = NotFollowed
    /\ soup = NoneVal
    /\ item_keys = NoneVal
    /\ sources = <<>>
    /\ table = <<>>
    /\ task = ClientIdle({})
    /\ view = NoneVal
    /\ count = NoneVal
    /\ session = NoneVal
    /\ profile = <<>>
    /\ response = NoneVal

\* views.py 490-505: every unseen notification of the user becomes seen and played
MarkNotificationsRead(user) ==
    [i \in DOMAIN table |->
        IF table[i].user = user /\ ~table[i].seen
        THEN [table[i] EXCEPT !.seen = TRUE, !.played = TRUE]
        ELSE table[i]]

\* app.py 194-197: data = fetch_json(ACTIVE_URL); without "has" run_once returns
RunOnceFetch ==
    /\ task.pc = "idle"
    /\ LET ids == Filter(ClientUser, "seen")
           data == Answer("active_notification", ClientUser, ids, FirstAscending(ids))
       IN  /\ response' = Some(data)
           /\ task' = IF data.has THEN [task EXCEPT !.pc = "fetched", !.data = data.id] ELSE task
    /\ UNCHANGED <<mainVars, sources, table, view, count, session, profile>>

\* app.py 204-209: post_json(MARK_URL) in a try block: the request is
\* served, or it raises and the client goes on to show the popup
RunOnceMark ==
    /\ task.pc = "fetched"
    /\ \/ table' = MarkNotificationsRead(ClientUser)
       \/ table' = table
    /\ task' = [task EXCEPT !.pc = "marked"]
    /\ UNCHANGED <<mainVars, sources, view, count, session, profile, response>>

\* app.py 211-254: the popup is shown and closed, run_once returns True
RunOncePopup ==
    /\ task.pc = "marked"
    /\ task' = ClientIdle(task.shown \cup {task.data[1]})
    /\ UNCHANGED <<mainVars, sources, table, view, count, session, profile, response>>

NextClient ==
    \/ \E user \in Users : CreateNotification(user)
    \/ RunOnceFetch
    \/ RunOnceMark
    \/ RunOncePopup

SpecClient == InitClient /\ [][NextClient]_vars

\* ------------------------------------------------------ ringtone uploads
\* the upload requests that can be in flight at the same time
Uploads == {1, 2}

\* no upload request is being served
NoUpload == [pc |-> "idle", user |-> "", rt |-> NoneVal]

\* In SpecRingtone table holds the CustomRingtone rows and, for each user,
\* UserSettings.default_ringtone; task holds the upload requests in flight.
InitRingtone ==
    /\ validators = FALSE
    /\ enabled = TRUE
    /\ extra_config = NewExtra(FALSE)
    /\ last_checked = NoneVal
    /\ inserted = <<>>
    /\ clock = 0
    /\ poll = NoPoll
    /\ evaluated = NoneVal
    /\ fetched = NoFetch
    /\ followed = NotFollowed
    /\ soup = NoneVal
    /\ item_keys = NoneVal
    /\ sources = <<>>
    /\ table = [ringtones |-> <<>>, default_ringtone |-> [u \in Users |-> NoneVal]]
    /\ task = [r \in Uploads |-> NoUpload]
    /\ view = NoneVal
    /\ count = NoneVal
    /\ session = NoneVal
    /\ profile = <<>>
    /\ response = NoneVal

\* views.py 259, views_api.py 161: filter(user=, is_default=True).update(is_default=False)
UploadUnset(r) ==
    /\ task[r].pc = "idle"
    /\ Len(table.ringtones) < MaxRows
    /\ \E user \in Users :
          /\ table' = [table EXCEPT !.ringtones =
                          [i \in DOMAIN @ |-> IF @[i].user = user
                                              THEN [@[i] EXCEPT !.is_default = FALSE]
                                              ELSE @[i]]]
          /\ task' = [task EXCEPT ![r] = [pc |-> "unset", user |-> user, rt |-> NoneVal]]
    /\ UNCHANGED <<mainVars, sources, view, count, session, profile, response>>

\* views.py 261-267, views_api.py 162-164: CustomRingtone.objects.create(is_default=True)
UploadCreate(r) ==
    /\ task[r].pc = "unset"
    /\ Len(table.ringtones) < MaxRows
    /\ table' = [table EXCEPT !.ringtones = Append(@, [user |-> task[r].user, is_default |-> TRUE])]
    /\ task' = [task EXCEPT ![r].pc = "created", ![r].rt = Some(Len(table.ringtones) + 1)]
    /\ UNCHANGED <<mainVars, sources, view, count, session, profile, response>>

\* views.py 279-283, views_api.py 166-176: default_ringtone = rt, save, respond
UploadSaveSettings(r) ==
    /\ task[r].pc = "created"
    /\ table' = [table EXCEPT !.default_ringtone[task[r].user] = task[r].rt]
    /\ task' = [task EXCEPT ![r] = NoUpload]
    /\ UNCHANGED <<mainVars, sources, view, count, session, profile, response>>

NextRingtone ==
    \E r \in Uploads :
        \/ UploadUnset(r)
        \/ UploadCreate(r)
        \/ UploadSaveSettings(r)

SpecRingtone == InitRingtone /\ [][NextRingtone]_vars

\* ------------------------------------------- mark-read, clear-all, delete-all
\* how many notifications the table holds when the requests start
OwnedRows == 2

\* The API keys a request can carry: the key of a user (written as the
\* user) or a key no UserSettings row has.
Keys == Users \cup {"invalid"}

\* the Notification tables the requests start from: any owners, any flags
OwnedTables ==
    {[i \in 1..OwnedRows |-> [id |-> i, user |-> u[i], detected_at |-> i, seen |-> f[i], played |-> g[i]]] :
        u \in [1..OwnedRows -> Users], f \in [1..OwnedRows -> BOOLEAN], g \in [1..OwnedRows -> BOOLEAN]}

InitOwner ==
    /\ validators = FALSE
    /\ enabled = TRUE
    /\ extra_config = NewExtra(FALSE)
    /\ last_checked = NoneVal
    /\ inserted = <<>>
    /\ clock = 0
    /\ poll = NoPoll
    /\ evaluated = NoneVal
    /\ fetched = NoFetch
    /\ followed = NotFollowed
    /\ soup = NoneVal
    /\ item_keys = NoneVal
    /\ sources = <<>>
    /\ table \in OwnedTables
    /\ task = <<>>
    /\ view = NoneVal
    /\ count = NoneVal
    /\ session = NoneVal
    /\ profile = <<>>
    /\ response = NoneVal

\* an update that does not filter on the user
UpdateAnyUser(user, ids, played) ==
    [i \in DOMAIN table |->
        IF table[i].id \in ids
        THEN [table[i] EXCEPT !.seen = TRUE, !.played = played]
        ELSE table[i]]

\* Notification.objects.filter(user=user, pk__in=ids).update(seen=True, played=played)
UpdateOwned(user, ids, played) ==
    [i \in DOMAIN table |->
        IF table[i].user = user /\ table[i].id \in ids
        THEN [table[i] EXCEPT !.seen = TRUE, !.played = played]
        ELSE table[i]]

\* the request the latest step served
Request(endpoint, key, ids) == Some([endpoint |-> endpoint, key |-> key, ids |-> ids])

\* POST /api/notifications/mark-read_key/: 401 on an invalid key, 400 without ids
MarkReadByKeyRequest ==
    /\ \E key \in Keys, ids \in SUBSET (1..OwnedRows), played \in BOOLEAN :
          /\ response' = Request("mark_notifications_read_by_key", key, ids)
          /\ table' = IF key = "invalid" \/ ids = {} THEN table ELSE UpdateOwned(key, ids, played)
    /\ UNCHANGED <<mainVars, sources, task, view, count, session, profile>>

\* POST /api/notifications/mark-read/ (IsAuthenticated): 400 without ids
MarkReadRequest ==
    /\ \E key \in Keys, ids \in SUBSET (1..OwnedRows), played \in BOOLEAN :
          /\ response' = Request("NotificationMarkReadAPI", key, ids)
          /\ table' = IF key = "invalid" \/ ids = {} THEN table ELSE UpdateOwned(key, ids, played)
    /\ UNCHANGED <<mainVars, sources, task, view, count, session, profile>>

\* POST /api/notifications/clear-all/ (IsAuthenticated): every row of the user
ClearAllRequest ==
    /\ \E key \in Keys :
          /\ response' = Request("NotificationClearAllAPI", key, {})
          /\ table' = IF key = "invalid" THEN table
                      ELSE UpdateOwned(key, {table[i].id : i \in DOMAIN table}, TRUE)
    /\ UNCHANGED <<mainVars, sources, task, view, count, session, profile>>

\* POST /api/notifications/delete-all/ (IsAuthenticated): the rows of the
\* user, or those of them detected before the cutoff
DeleteAllRequest ==
    /\ \E key \in Keys, cutoff \in 1..(OwnedRows + 1) :
          /\ response' = Request("NotificationDeleteAllAPI", key, {})
          /\ table' = IF key = "invalid" THEN table
                      ELSE SelectSeq(table, LAMBDA n : ~(n.user = key /\ n.detected_at < cutoff))
    /\ UNCHANGED <<mainVars, sources, task, view, count, session, profile>>

NextOwner ==
    \/ MarkReadByKeyRequest
    \/ MarkReadRequest
    \/ ClearAllRequest
    \/ DeleteAllRequest

SpecOwner == InitOwner /\ [][NextOwner]_vars

\* ------------------------------------------------- link_source, then checks
\* how many sources link_source creates
MaxLinked == 2

\* link_source is not running
NotLinking == [pc |-> "idle"]

InitLink ==
    /\ validators = FALSE
    /\ enabled = TRUE
    /\ extra_config = NewExtra(FALSE)
    /\ last_checked = NoneVal
    /\ inserted = <<>>
    /\ clock = 0
    /\ poll = NoPoll
    /\ evaluated = NoneVal
    /\ fetched = NoFetch
    /\ followed = NotFollowed
    /\ soup = NoneVal
    /\ item_keys = NoneVal
    /\ sources = <<>>
    /\ table = <<>>
    /\ task = NotLinking
    /\ view = NoneVal
    /\ count = NoneVal
    /\ session = NoneVal
    /\ profile = <<>>
    /\ response = NoneVal

\* lines 256-259 of link_source.py: the body of the create request
CreatePayload(rendered) ==
    IF rendered THEN [name |-> "name", check_url |-> "url", rendered |-> TRUE]
    ELSE [name |-> "name", check_url |-> "url"]

\* source_create_by_key: reads name and check_url of the body and creates
\* the row with extra_config = {}.  payload is history: the body the row
\* was created from.
SourceCreateByKey(body) ==
    [extra_config |-> NoCookies @@ NewExtra(FALSE), last_checked |-> NoneVal,
     payload |-> body]

\* lines 255-265 of link_source.py: the create request and its answer
LinkCreate ==
    /\ task.pc = "idle"
    /\ Len(sources) < MaxLinked
    /\ \E rendered \in BOOLEAN :
          sources' = Append(sources, SourceCreateByKey(CreatePayload(rendered)))
    /\ task' = [pc |-> "created", sid |-> Len(sources) + 1]
    /\ UNCHANGED <<mainVars, table, view, count, session, profile, response>>

\* lines 267-293 of link_source.py: the cookies found, if any, are uploaded
\* to source_import_cookies_by_key
LinkCookies ==
    /\ task.pc = "created"
    /\ \/ \E jar \in Jars :
             sources' = [sources EXCEPT ![task.sid].extra_config =
                            [@ EXCEPT !.cookies = Some(jar), !.headers = @ \cup {"User-Agent"}]]
       \/ UNCHANGED sources
    /\ task' = NotLinking
    /\ UNCHANGED <<mainVars, table, view, count, session, profile, response>>

\* check_source on a linked source; response is history: the cur_mode of
\* line 589 in the latest check, and the source it was computed for
CheckLinked ==
    /\ Len(table) < MaxRows
    /\ \E sid \in DOMAIN sources, h \in StepPages :
          LET extra == sources[sid].extra_config
              f == Fetch(extra.rendered, HttpResponse(FALSE, h), h, h)
              r == Evaluate(extra, f.html_text[1], f.resp_for_fp[1], clock)
          IN  /\ sources' = [sources EXCEPT ![sid].extra_config = r.extra,
                                            ![sid].last_checked = Some(clock)]
              /\ table' = table \o [i \in 1..Len(r.rows) |->
                                      [source |-> sid, row |-> r.rows[i], baseline |-> "committed"]]
              /\ response' = Some([source |-> sid, cur_mode |-> CurMode(extra)])
    /\ UNCHANGED <<mainVars, task, view, count, session, profile>>

NextLink ==
    \/ LinkCreate
    \/ LinkCookies
    \/ CheckLinked

SpecLink == InitLink /\ [][NextLink]_vars

\* ------------------------------------------------ what a check writes
\* the keys of extra_config that configure the check
ConfigKeys == {"cookies", "headers", "rendered", "timeout", "user_data_dir", "debug"}

\* a NotificationSource row: the model fields and a configured extra_config
SourceRow(user, is_enabled, rendered, cookies) ==
    [user |-> user, name |-> "name", check_url |-> "url", enabled |-> is_enabled,
     extra_config |-> [cookies |-> cookies, headers |-> {"User-Agent"}, timeout |-> Some(1),
                       user_data_dir |-> "", debug |-> FALSE] @@ NewExtra(rendered),
     last_checked |-> NoneVal]

\* the documents the sites of these sources serve
FramePages == StepPages \cup {h \in Pages : h.title = NoneVal /\ Len(h.lines) = 1 /\ h.lines[1].kw /\ h.lines[1].num = NoneVal}

InitFrame ==
    /\ validators = TRUE
    /\ enabled = TRUE
    /\ extra_config = NewExtra(FALSE)
    /\ last_checked = NoneVal
    /\ inserted = <<>>
    /\ clock = 0
    /\ poll = NoPoll
    /\ evaluated = NoneVal
    /\ fetched = NoFetch
    /\ followed = NotFollowed
    /\ soup = NoneVal
    /\ item_keys = NoneVal
    /\ \E on \in [Sources -> BOOLEAN], r \in [Sources -> BOOLEAN], c \in [Sources -> Opt(Jars)] :
          sources = [s \in Sources |-> SourceRow(Owner, on[s], r[s], c[s])]
    /\ table = <<>>
    /\ task = <<>>
    /\ view = NoneVal
    /\ count = NoneVal
    /\ session = NoneVal
    /\ profile = <<>>
    /\ response = NoneVal

\* what the fetch section can end with for this extra_config; a server
\* answers 304 only to a request that carried a conditional header
FrameFetches(extra) ==
    {f \in {Fetch(extra.rendered, http, r, r) :
                http \in {HttpFailure("error"), HttpFailure("304")}
                         \cup {HttpResponse(TRUE, h) : h \in FramePages},
                r \in FramePages \cup {EmptyHtml}} :
        f.status = "304" => CondHeaders(extra) # {}}

\* source.save(update_fields=["last_checked"]) of lines 629-630 and 701-702
SaveLastChecked(src, now) == [src EXCEPT !.last_checked = Some(now)]

\* _save_extra: src.save(update_fields=["extra_config", "last_checked"])
SaveExtraFields(src, extra, now) ==
    [src EXCEPT !.extra_config = extra, !.last_checked = Some(now)]

\* check_source(source_id), from the lookup to the return; response is
\* history: the source and the return point of the latest execution
CheckFrame(s) ==
    /\ Len(table) < MaxRows
    /\ LET src == sources[s]
           extra == src.extra_config
       IN  IF ~src.enabled
           THEN /\ response' = Some([source |-> s, ret |-> "disabled"])
                /\ UNCHANGED <<sources, table>>
           ELSE \E f \in FrameFetches(extra) :
                   IF f.status = "304"
                   THEN /\ sources' = [sources EXCEPT ![s] = SaveLastChecked(src, clock)]
                        /\ response' = Some([source |-> s, ret |-> "304"])
                        /\ UNCHANGED table
                   ELSE IF f.status = "failed"
                   THEN /\ sources' = [sources EXCEPT ![s] = SaveLastChecked(src, clock)]
                        /\ response' = Some([source |-> s, ret |-> "failed"])
                        /\ UNCHANGED table
                   ELSE IF Raises(extra, f.html_text[1])
                   THEN /\ response' = Some([source |-> s, ret |-> "raised"])
                        /\ UNCHANGED <<sources, table>>
                   ELSE LET r == Evaluate(extra, f.html_text[1], f.resp_for_fp[1], clock)
                        IN  /\ sources' = [sources EXCEPT ![s] = SaveExtraFields(src, r.extra, clock)]
                            /\ table' = table \o [i \in 1..Len(r.rows) |->
                                            [source |-> s, row |-> r.rows[i], baseline |-> "committed"]]
                            /\ response' = Some([source |-> s, ret |-> r.ret])
    /\ UNCHANGED <<mainVars, task, view, count, session, profile>>

NextFrame == \E s \in Sources : CheckFrame(s)

SpecFrame == InitFrame /\ [][NextFrame]_vars

\* ------------------------------------------------- the steps of one check
\* line 421: the channels launch_persistent_context is tried with
Channels == <<"chrome", "msedge", "default">>

\* line 511: the alternate URLs tried for a Gmail source
GmailAlts == <<"https://mail.google.com/mail/u/0/#inbox", "https://mail.google.com/">>

\* line 381: scroll_down, which check_source never passes
ScrollDown == 0

\* the return points of check_source
ReturnPoints == {"disabled", "304", "failed", "baseline", "evaluated"}

\* No check is running; ret is the return point of the latest one.  The other
\* fields are history of the latest check: whether the request and the two
\* snapshots gave a document, the channel and the alternate URL reached, the
\* scrolls done.
NotChecking(ret) ==
    [pc |-> "idle", ret |-> ret, rendered |-> FALSE, gmail |-> FALSE, html |-> FALSE,
     snapshot |-> 0, channel |-> 0, alt |-> 0, scrolls |-> 0, long |-> FALSE]

InitTerm ==
    /\ validators = FALSE
    /\ enabled = TRUE
    /\ extra_config = NewExtra(FALSE)
    /\ last_checked = NoneVal
    /\ inserted = <<>>
    /\ clock = 0
    /\ poll = NoPoll
    /\ evaluated = NoneVal
    /\ fetched = NoFetch
    /\ followed = NotFollowed
    /\ soup = NoneVal
    /\ item_keys = NoneVal
    /\ sources = <<>>
    /\ table = <<>>
    /\ task = NotChecking("none")
    /\ view = NoneVal
    /\ count = NoneVal
    /\ session = BuildSession(NoneVal)
    /\ profile = <<>>
    /\ response = NoneVal

\* the check returns
Return(ret) == task' = [task EXCEPT !.pc = "idle", !.ret = ret]

\* lines 581-623: the lookup of the source (the return when it is disabled
\* or missing), its configuration, the session
Invoke ==
    /\ task.pc = "idle"
    /\ \/ /\ task' = NotChecking("disabled")
          /\ UNCHANGED session
       \/ \E rendered \in BOOLEAN, gmail \in BOOLEAN, tout \in Timeouts :
             /\ task' = [NotChecking("none") EXCEPT !.pc = "get", !.rendered = rendered,
                                                    !.gmail = gmail]
             /\ session' = BuildSession(tout)
    /\ UNCHANGED <<mainVars, sources, table, view, count, profile, response>>

\* lines 621-639: one request of sess.get; the 304 return (a server answers
\* 304 only when a fingerprint is stored), the document, or the except branch
Get ==
    /\ task.pc = "get"
    /\ \E a \in Attempts :
          LET sess == SessGetAttempt(session, a)
              kind == HttpKind(sess)
          IN  /\ sess.result # "pending" /\ kind = "304" => ~IsNone(count)
              /\ session' = sess
              /\ IF sess.result = "pending" THEN UNCHANGED task
                 ELSE IF kind = "304" THEN Return("304")
                 ELSE IF kind = "ok" /\ ~task.rendered
                 THEN task' = [task EXCEPT !.pc = "parse", !.html = TRUE]
                 ELSE task' = [task EXCEPT !.pc = "launch", !.html = (kind = "ok"),
                                           !.snapshot = 1, !.channel = 1]
    /\ UNCHANGED <<mainVars, sources, table, view, count, profile, response>>

\* the snapshot is over (ctx.close, return html): the long snapshot follows
\* the short one, the parse follows the long one
SnapshotDone(got) ==
    IF task.snapshot = 1
    THEN [task EXCEPT !.pc = "launch", !.snapshot = 2, !.channel = 1, !.alt = 0,
                      !.html = @ \/ got]
    ELSE [task EXCEPT !.pc = "parse", !.html = @ \/ got]

\* lines 421-444: launch_persistent_context on one channel; the next channel
\* after a failure, return "" after the last
Launch ==
    /\ task.pc = "launch"
    /\ \/ task' = [task EXCEPT !.pc = "open"]
       \/ task' = IF task.channel < Len(Channels)
                  THEN [task EXCEPT !.channel = @ + 1]
                  ELSE SnapshotDone(FALSE)
    /\ UNCHANGED <<mainVars, sources, table, view, count, session, profile, response>>

\* lines 456-507: open_and_render(url): goto with its timeout, the waits,
\* range(scroll_down) scrolls, page.content(); long tells whether the
\* document has 2000 characters
Open ==
    /\ task.pc = "open"
    /\ \E got \in BOOLEAN, long \in BOOLEAN :
          /\ long => got
          /\ IF ~long /\ task.gmail
             THEN task' = [task EXCEPT !.pc = "alt", !.alt = 1, !.scrolls = ScrollDown,
                                       !.long = got]
             ELSE task' = [SnapshotDone(got) EXCEPT !.scrolls = ScrollDown]
    /\ UNCHANGED <<mainVars, sources, table, view, count, session, profile, response>>

\* the alternate URL that cycles through GmailAlts
NextAltWraps(alt) == IF alt >= Len(GmailAlts) THEN 1 ELSE alt + 1

\* line 511: the for loop moves to the next alternate URL
NextAlt(alt) == alt + 1

\* lines 509-515: open_and_render on one alternate URL; long is history here:
\* whether a document has been kept
AltOpen ==
    /\ task.pc = "alt"
    /\ task.alt <= Len(GmailAlts)
    /\ \E longer \in BOOLEAN :
          task' = [task EXCEPT !.alt = NextAlt(@), !.long = @ \/ longer]
    /\ UNCHANGED <<mainVars, sources, table, view, count, session, profile, response>>

\* lines 517-521: the alternates are used up
AltDone ==
    /\ task.pc = "alt"
    /\ task.alt > Len(GmailAlts)
    /\ task' = SnapshotDone(task.long)
    /\ UNCHANGED <<mainVars, sources, table, view, count, session, profile, response>>

\* lines 700-812: the return without a document, the first baseline, or
\* the detectors and the saved baseline; count tells that a baseline is stored
Finish ==
    /\ task.pc = "parse"
    /\ IF ~task.html THEN Return("failed") /\ UNCHANGED count
       ELSE IF IsNone(count) THEN Return("baseline") /\ count' = Some(1)
       ELSE Return("evaluated") /\ UNCHANGED count
    /\ UNCHANGED <<mainVars, sources, table, view, session, profile, response>>

\* the steps of a running check
StepTerm ==
    \/ Get
    \/ Launch
    \/ Open
    \/ AltOpen
    \/ AltDone
    \/ Finish

NextTerm ==
    \/ Invoke
    \/ StepTerm

\* The check is synchronous and sequential, and each blocking call carries a
\* timeout (the request, goto, the waits), so a running check takes its next
\* step.
SpecTerm == InitTerm /\ [][NextTerm]_vars /\ WF_vars(StepTerm)

\* ------------------------------------------------------ the beat schedule
\* how many messages the broker queue holds in the model
MaxQueue == 3

\* the instants the beat stamps its messages with (they wrap around)
BeatTicks == 8

\* CELERY_BEAT_SCHEDULE: the task sent every 60 seconds
BeatSchedule == [task |-> "webnotify.tasks.check_all_sources", args |-> <<>>]

\* the tasks the worker registers: @shared_task check_source of tasks.py
\* (found by autodiscover_tasks) and debug_task of celery.py
Registry == {"webnotify.tasks.check_source", "webnotify_project.celery.debug_task"}

InitBeat ==
    /\ validators = FALSE
    /\ enabled = TRUE
    /\ extra_config = NewExtra(FALSE)
    /\ last_checked = NoneVal
    /\ inserted = <<>>
    /\ clock = 0
    /\ poll = NoPoll
    /\ evaluated = NoneVal
    /\ fetched = NoFetch
    /\ followed = NotFollowed
    /\ soup = NoneVal
    /\ item_keys = NoneVal
    /\ sources = [s \in Sources |-> [enabled |-> TRUE, last_checked |-> NoneVal, fresh |-> FALSE]]
    /\ table = <<>>
    /\ task = <<>>
    /\ view = NoneVal
    /\ count = Some(0)
    /\ session = NoneVal
    /\ profile = <<>>
    /\ response = NoneVal

\* The beat: 60 seconds have passed, the scheduled message is sent.  fresh
\* is history: the source was checked since the latest tick.
Beat ==
    /\ Len(task) < MaxQueue
    /\ count' = Some((count[1] + 1) % BeatTicks)
    /\ task' = Append(task, BeatSchedule)
    /\ sources' = [s \in Sources |-> [sources[s] EXCEPT !.fresh = FALSE]]
    /\ UNCHANGED <<mainVars, table, view, session, profile, response>>

\* check_source(source_id) run by the worker: the model keeps that an
\* enabled source gets its last_checked, a disabled one nothing
RunCheckSource(s) ==
    IF sources[s].enabled
    THEN [sources EXCEPT ![s].last_checked = count, ![s].fresh = TRUE]
    ELSE sources

\* The worker takes the next message: a task of the registry is run, a
\* message that names no registered task is discarded.
Worker ==
    /\ task # <<>>
    /\ LET msg == Head(task)
       IN  IF msg.task \notin Registry
           THEN /\ response' = Some("unregistered")
                /\ UNCHANGED sources
           ELSE IF msg.task = "webnotify.tasks.check_source"
           THEN /\ response' = Some("check_source")
                /\ sources' = RunCheckSource(msg.args[1])
           ELSE /\ response' = Some("debug")
                /\ UNCHANGED sources
    /\ task' = Tail(task)
    /\ UNCHANGED <<mainVars, table, view, count, session, profile>>

\* the admin site enables or disables a source
AdminToggle(s) ==
    /\ sources' = [sources EXCEPT ![s].enabled = ~@]
    /\ UNCHANGED <<mainVars, table, task, view, count, session, profile, response>>

NextBeat ==
    \/ Beat
    \/ Worker
    \/ \E s \in Sources : AdminToggle(s)

\* the beat sends at each interval and the worker consumes its queue
SpecBeat == InitBeat /\ [][NextBeat]_vars /\ WF_vars(Beat) /\ WF_vars(Worker)

\* ------------------------------------------------------------- properties
\* a step that is one execution of check_source
Checked == clock' # clock
\* ... that reached "fingerprint + parse"
Parsing == Checked /\ poll'.ret \in {"baseline", "evaluated"}
\* ... that went past the baseline branch into the detectors
Detecting == Checked /\ poll'.ret = "evaluated"
\* the count the execution parsed, and the text it hashed
NewCount == ParsedCount(evaluated'[1].html)
NewText == evaluated'[1].html.lines
\* the fetch mode the source is configured for
ConfiguredMode == IF extra_config.rendered THEN "rendered" ELSE "requests"
\* the baseline without the instant its fingerprint was saved at
Baseline(extra) ==
    [extra EXCEPT !.fingerprint = IF @ = NoneVal THEN @ ELSE <<[@[1] EXCEPT !.saved_at = 0]>>]

\* C1: between two consecutive successful polls that parse the positive
\* counts c_(i-1) and c_i, the later poll being past the baseline, a row is
\* inserted exactly when c_i > c_(i-1); and a source that parses 2, 2, 5, 3, 3, 6
\* from its creation on, the first poll being the baseline, gets rows at
\* 2 -> 5 and at 3 -> 6 (polls 3 and 6) and nowhere else.
C1_CountIncrease ==
    /\ [][(/\ Detecting
           /\ evaluated # NoneVal
           /\ Truthy(ParsedCount(evaluated[1].html))
           /\ Truthy(NewCount))
          => (inserted' # <<>> <=> IntOf(NewCount) > IntOf(ParsedCount(evaluated[1].html)))]_vars
    /\ [](followed.pos = Len(Scenario) => followed.events = {3, 6})
C1_Witness == followed.pos = Len(Scenario) /\ followed.events = {3, 6}

\* C2: the first successful check of a source with no stored fingerprint and
\* no stored last_count inserts no row whatever the page holds, and leaves a
\* fingerprint and the fetch mode in extra_config.
C2_FirstCheckSilent ==
    [][(/\ Parsing
        /\ IsNone(extra_config.fingerprint)
        /\ IsNone(extra_config.last_count))
       => /\ inserted' = <<>>
          /\ ~poll'.result
          /\ ~IsNone(extra_config'.fingerprint)
          /\ extra_config'.mode = ConfiguredMode]_vars
C2_Witness ==
    /\ poll.ret = "baseline" /\ poll.first
    /\ followed.pos = 1
    /\ inserted = <<>>
    /\ ~IsNone(extra_config.fingerprint)
    /\ extra_config.mode # ""

\* C3: a successful check of a source whose configured fetch mode differs
\* from the mode its baseline records inserts no row, whatever the count or
\* the text, and records the configured mode.
C3_ModeSwitchSilent ==
    [][(/\ Checked
        /\ extra_config.mode # ""
        /\ extra_config.mode # ConfiguredMode)
       => /\ inserted' = <<>>
          /\ ~poll'.result
          /\ Parsing => poll'.ret = "baseline" /\ extra_config'.mode = ConfiguredMode]_vars
C3_Witness ==
    /\ poll.ret = "baseline" /\ poll.switched /\ ~poll.first
    /\ inserted = <<>>
    /\ extra_config.mode = ConfiguredMode

\* C4: an execution whose request is answered 304 parses nothing, inserts no
\* row, returns False and leaves extra_config as it was; it writes
\* last_checked only.
C4_NotModified ==
    [][(Checked /\ poll'.ret = "304")
       => /\ extra_config' = extra_config
          /\ evaluated' = evaluated
          /\ inserted' = <<>>
          /\ ~poll'.result
          /\ last_checked' = Some(clock)]_vars
C4_Witness ==
    /\ poll.ret = "304"
    /\ last_checked = Some(1 - clock)
    /\ extra_config.fingerprint[1].saved_at = clock

\* C5: an execution none of whose fetch paths yields content inserts no row,
\* returns False and leaves extra_config as it was; it writes last_checked
\* only, however many such executions follow one another.
C5_FetchFailed ==
    [][(Checked /\ poll'.ret = "failed")
       => /\ extra_config' = extra_config
          /\ evaluated' = evaluated
          /\ inserted' = <<>>
          /\ ~poll'.result
          /\ last_checked' = Some(clock)]_vars
C5_Witness ==
    /\ poll.ret = "failed"
    /\ last_checked = Some(1 - clock)
    /\ ~IsNone(extra_config.fingerprint)
    /\ extra_config.fingerprint[1].saved_at = clock

\* C6: one execution inserts at most one row: the text-hash fallback does
\* not run after the count detector has inserted one.
C6_AtMostOneRow == Len(inserted) <= 1
C6_Witness ==
    /\ poll.ret = "evaluated"
    /\ Len(inserted) = 1
    /\ inserted[1].meta.detector = "count"
    /\ extra_config.last_hash # EmptyStr
    /\ ContainsKeywords(evaluated[1].html.lines)
    /\ HashText(evaluated[1].html.lines) # extra_config.last_hash

\* C7: past the baseline, when no count is parsed and a last_hash is stored,
\* a row is inserted exactly when the visible text holds a keyword and its
\* hash differs from last_hash; last_hash is the hash of the text afterwards
\* either way.
C7_TextHash ==
    [][(/\ Detecting
        /\ IsNone(NewCount)
        /\ extra_config.last_hash # EmptyStr)
       => /\ inserted' # <<>> <=> (ContainsKeywords(NewText) /\ HashText(NewText) # extra_config.last_hash)
          /\ inserted' # <<>> => inserted' = <<TextHashNotification(clock)>>
          /\ extra_config'.last_hash = HashText(NewText)]_vars
C7_Witness ==
    /\ poll.ret = "evaluated"
    /\ inserted # <<>>
    /\ inserted[1].meta.detector = "text-hash"
    /\ extra_config.last_hash = HashText(evaluated[1].html.lines)

\* C8: an execution that parses the response the execution before it parsed
\* (same body, same count, same ETag and Last-Modified), the configuration
\* being the same, inserts no row and leaves the baseline as it was but for
\* the instant the fingerprint was saved at; and the first execution of a
\* source inserts no row either.
C8_Idempotent ==
    /\ [][(/\ Parsing
           /\ evaluated # NoneVal
           /\ evaluated' = evaluated
           /\ ~IsNone(extra_config.fingerprint)
           /\ extra_config.mode = ConfiguredMode)
          => /\ inserted' = <<>>
             /\ Baseline(extra_config') = Baseline(extra_config)]_vars
    /\ [][(Parsing /\ evaluated = NoneVal) => inserted' = <<>>]_vars
C8_Witness ==
    /\ poll.ret = "evaluated" /\ poll.same
    /\ inserted = <<>>
    /\ ContainsKeywords(evaluated[1].html.lines)

\* C9: a row of the count detector records as prev the last_count stored
\* before the execution and as now the count parsed, with now > prev, and is
\* unseen and unplayed; with last_count 3 stored, parsing 3 inserts no row
\* and parsing 4 inserts the one row with prev 3 and now 4.
C9_CountRow ==
    /\ [][(Checked /\ inserted' # <<>> /\ inserted'[1].meta.detector = "count")
          => /\ Len(inserted') = 1
             /\ inserted'[1].meta.prev = extra_config.last_count
             /\ inserted'[1].meta.now = NewCount
             /\ IntOf(inserted'[1].meta.now) > IntOf(inserted'[1].meta.prev)
             /\ ~inserted'[1].seen
             /\ ~inserted'[1].played]_vars
    /\ [][(Detecting /\ extra_config.last_count = Some(3))
          => /\ NewCount = Some(3) => inserted' = <<>> /\ extra_config'.last_count = Some(3)
             /\ NewCount = Some(4) =>
                  /\ Len(inserted') = 1
                  /\ inserted'[1].meta.detector = "count"
                  /\ inserted'[1].meta.prev = Some(3)
                  /\ inserted'[1].meta.now = Some(4)]_vars
C9_Witness ==
    /\ inserted # <<>>
    /\ inserted[1].meta.detector = "count"
    /\ inserted[1].meta.prev = Some(3)
    /\ inserted[1].meta.now = Some(4)
    /\ extra_config.last_count = Some(4)

\* C10: past the baseline, an execution that parses a count c leaves
\* last_count = c, and inserts no row when c is lower than or equal to the
\* last_count stored before it.
C10_LastCountFollows ==
    [][(Detecting /\ ~IsNone(NewCount))
       => /\ extra_config'.last_count = NewCount
          /\ (/\ ~IsNone(extra_config.last_count)
              /\ IntOf(NewCount) <= IntOf(extra_config.last_count)) => inserted' = <<>>]_vars
C10_Witness ==
    /\ poll.ret = "evaluated"
    /\ followed.pos = 4
    /\ extra_config.last_count = Some(3)
    /\ inserted = <<>>

\* the elements of a list
Range(keys) == {keys[i] : i \in DOMAIN keys}
\* the keys of the page the execution parsed that seen_keys does not hold
NewKeys == Range(ExtractItemKeys(evaluated'[1].html)) \ Range(extra_config.seen_keys)

\* C11: past the baseline, an execution that parses a page with a key that
\* seen_keys does not hold and with the count stored as last_count inserts
\* exactly one row, of the detector "new-keys", and adds the new keys to
\* seen_keys.
C11_NewKeysEvent ==
    [][(/\ Detecting
        /\ NewKeys # {}
        /\ NewCount = extra_config.last_count)
       => /\ Len(inserted') = 1
          /\ inserted'[1].meta.detector = "new-keys"
          /\ NewKeys \subseteq Range(extra_config'.seen_keys)]_vars

C13_UnusedFieldKept ==
    [][Parsing
       => /\ ~IsNone(NewCount) => extra_config'.last_hash = extra_config.last_hash
          /\ IsNone(NewCount) => extra_config'.last_count = extra_config.last_count]_vars
\* C13 as the code has it: past the baseline the field of the strategy not
\* used is left as it was; the baseline branch (first run, mode switch)
\* removes it.
C13_UnusedFieldKeptPastBaseline ==
    /\ [][Detecting
          => /\ ~IsNone(NewCount) => extra_config'.last_hash = extra_config.last_hash
             /\ IsNone(NewCount) => extra_config'.last_count = extra_config.last_count]_vars
    /\ [][(Checked /\ poll'.ret = "baseline")
          => /\ ~IsNone(NewCount) => extra_config'.last_hash = EmptyStr
             /\ IsNone(NewCount) => IsNone(extra_config'.last_count)]_vars
C13_Witness ==
    /\ poll.ret = "evaluated"
    /\ IsNone(ParsedCount(evaluated[1].html))
    /\ ~IsNone(extra_config.last_count)
    /\ extra_config.last_hash = HashText(evaluated[1].html.lines)

\* a count is stored / a text hash is stored
HasCount == ~IsNone(extra_config.last_count)
HasHash == extra_config.last_hash # EmptyStr

\* C14 as claimed: once a check has stored a fingerprint, extra_config holds
\* exactly one of last_count and last_hash.
C14_ExactlyOne == ~IsNone(extra_config.fingerprint) => (HasCount # HasHash)
\* C14 as the code has it: once a check has stored a fingerprint,
\* extra_config holds last_count or last_hash, and exactly one of them right
\* after the baseline branch (so after the first check); past the baseline
\* both can be there.
C14_OneAtLeast ==
    /\ ~IsNone(extra_config.fingerprint) => (HasCount \/ HasHash)
    /\ (~IsNone(extra_config.fingerprint) /\ poll.ret = "baseline") => (HasCount # HasHash)
C14_Witness ==
    /\ poll.ret = "evaluated"
    /\ ~IsNone(ParsedCount(evaluated[1].html))
    /\ ~IsNone(extra_config.fingerprint)
    /\ HasCount /\ HasHash

\* C15: past the baseline, an execution that parses content stores the
\* fingerprint of the response it parsed (its ETag, its Last-Modified, the
\* hash of its body, the instant) and the configured mode, with or without a
\* row.
C15_FingerprintRewritten ==
    [][Detecting
       => /\ extra_config'.fingerprint =
                <<[etag |-> evaluated'[1].etag,
                   last_modified |-> evaluated'[1].last_modified,
                   body_hash |-> Sha256(evaluated'[1].html),
                   saved_at |-> clock]>>
          /\ extra_config'.mode = ConfiguredMode]_vars
C15_Witness ==
    /\ poll.ret = "evaluated" /\ ~poll.same
    /\ inserted # <<>>
    /\ extra_config.fingerprint[1].body_hash = Sha256(evaluated[1].html)
    /\ extra_config.fingerprint[1].saved_at = 1 - clock

\* C16: for a source configured as rendered, an execution whose two
\* snapshots both came back empty inserts no row and leaves extra_config as
\* it was, whatever the plain request returned.
C16_RenderFailureIsFailure ==
    [][(/\ Checked
        /\ extra_config.rendered
        /\ fetched'.render = "failed")
       => /\ inserted' = <<>>
          /\ extra_config' = extra_config]_vars

\* C17 as claimed: for a source in requests mode, an execution whose request
\* failed parses nothing, inserts no row, leaves extra_config as it was and
\* writes last_checked only.
C17_FailedRequestEnds ==
    [][(/\ Checked
        /\ ~extra_config.rendered
        /\ fetched'.http = "error")
       => /\ poll'.ret = "failed"
          /\ evaluated' = evaluated
          /\ inserted' = <<>>
          /\ extra_config' = extra_config
          /\ last_checked' = Some(clock)]_vars
\* C17 as the code has it: for a source in requests mode, an execution whose
\* request failed runs the render; when the render returns nothing it parses
\* nothing, inserts no row, leaves extra_config as it was and writes
\* last_checked only; when the render returns a document it parses that
\* document, without headers, under the mode "requests".
C17_FailedRequestFallsBack ==
    [][(/\ Checked
        /\ ~extra_config.rendered
        /\ fetched'.http = "error")
       => /\ fetched'.render \in {"failed", "ok"}
          /\ fetched'.render = "failed" =>
                /\ poll'.ret = "failed"
                /\ evaluated' = evaluated
                /\ inserted' = <<>>
                /\ extra_config' = extra_config
                /\ last_checked' = Some(clock)
          /\ fetched'.render = "ok" =>
                /\ Parsing
                /\ ~evaluated'[1].html.empty
                /\ evaluated'[1].etag = EmptyStr
                /\ evaluated'[1].last_modified = EmptyStr
                /\ extra_config'.mode = "requests"]_vars
C17_Witness ==
    /\ fetched.http = "error"
    /\ fetched.render = "ok"
    /\ poll.ret = "evaluated"
    /\ inserted # <<>>
    /\ extra_config.mode = "requests"

\* C18: for a source configured as rendered, an execution sends no plain
\* request before the render, so that whatever a plain request would return,
\* a 304 included, the render runs.
C18_NoRequestBeforeRender ==
    [][(/\ Checked
        /\ enabled
        /\ extra_config.rendered)
       => /\ fetched'.http = "unsent"
          /\ fetched'.render # "skipped"
          /\ poll'.ret # "304"]_vars

C20_DisabledNoOp ==
    [][(Checked /\ ~enabled)
       => /\ fetched' = NoFetch
          /\ inserted' = <<>>
          /\ extra_config' = extra_config
          /\ last_checked' = last_checked
          /\ enabled' = enabled
          /\ evaluated' = evaluated
          /\ poll'.ret = "disabled"
          /\ ~poll'.result]_vars
C20_Witness ==
    /\ ~enabled
    /\ poll.ret = "disabled"
    /\ ~IsNone(extra_config.fingerprint)
    /\ last_checked = Some(clock)

\* C21: a Notification exists only if the execution that created it has
\* committed its baseline (last_count or last_hash, fingerprint, mode); this
\* holds in every state, also between two steps of an execution and after an
\* execution was interrupted.
C21_NoPartialApply ==
    \A i \in 1..Len(table) : table[i].baseline = "committed"

\* C22: an execution in which the extraction or the evaluation raises
\* (after a successful fetch) creates no event, leaves extra_config as it
\* was and advances last_checked; the exception does not leave check_source
\* (ret = "raised" is the exception leaving it).
C22_RaiseAbortsCleanly ==
    [][Checked /\ poll'.ret = "raised"
        => /\ inserted' = <<>>
           /\ extra_config' = extra_config
           /\ last_checked' = Some(clock)]_vars

\* the Notification rows of source s
RowsOf(s, tbl) == SelectSeq(tbl, LAMBDA n : n.source = s)
\* what a check of s that runs alone makes of page h and of the row s has now
Alone(s, h) ==
    LET f == Fetch(FALSE, HttpResponse(FALSE, h), EmptyHtml, EmptyHtml)
    IN  Evaluate(sources[s].extra_config, f.html_text[1], f.resp_for_fp[1], clock)

C24_ProfileExclusive ==
    \A s, t \in Sources :
        /\ Owner[s] # Owner[t]
        /\ profile[s] # ""
        /\ profile[t] # ""
        => profile[s] # profile[t]

\* C25: within one check the session sends at most 2 requests to the URL
\* when every one of them ends in a connection error or a 429/5xx response,
\* and the request then counts as failed.
C25_AtMostTwoRequests ==
    session.all
        => /\ session.sent <= 2
           /\ session.result # "pending" => HttpKind(session) = "error"

\* the result of the first extractor, in the fixed order, that is not None
FirstNonNull(h) ==
    IF ~IsNone(h.gmail) THEN h.gmail
    ELSE IF ~IsNone(h.title) THEN h.title
    ELSE IF ~IsNone(h.aria) THEN h.aria
    ELSE ExtractCountFromText(h.lines)

\* C26: the count the evaluator uses is the result of the first extractor
\* (site-specific, title, badge/aria, free text) that returns a number, 0
\* included; the value of a later extractor is never used then.
C26_FirstNonNullWins ==
    ~IsNone(soup) => count[1] = FirstNonNull(soup[1])

\* C27: every endpoint that serves the active notification answers, for its
\* user, with the notification of the greatest detected_at among the user's
\* notifications with played = false, and with has = false exactly when the
\* user has none.
C27_ActiveIsNewestUnplayed ==
    [][response' # response
        => LET r == response'[1]
               ids == Filter(r.user, "played")
           IN  /\ r.has = (ids # {})
               /\ r.has => r.id = Some(FirstDescending(ids))]_vars

\* the only count on the page is a 0
ShowsZero(h) == h.title = Some(0) /\ IsNone(ExtractCountFromText(h.lines))
\* the page shows a positive count
ShowsPositive(h) == ~IsNone(h.title) /\ IntOf(h.title) > 0

FetchPath(f) == IF f.render = "ok" THEN "rendered" ELSE "requests"

\* C29: the mode an execution records in the baseline is the fetch path that
\* produced the content it evaluated, and past the baseline branch that
\* content is compared with a baseline recorded from the same path.
C29_ModeIsFetchPath ==
    [][/\ Parsing => extra_config'.mode = FetchPath(fetched')
       /\ Detecting => PrevMode(extra_config) = FetchPath(fetched')]_vars

\* the baseline keys of a config blob
BaselineKeys(extra) == <<extra.fingerprint, extra.last_count, extra.last_hash, extra.mode>>
\* the keys the cookie import writes
ImportedKeys(extra) == <<extra.cookies, extra.headers>>

\* C30: the save of a check keeps the cookies and headers that an import
\* committed to the row since the check loaded it, and the save of a cookie
\* import keeps the baseline that a check committed to the row since the
\* import read it.
C30_NoLostUpdate ==
    [][/\ \A s \in Sources :
             task[s].pc = "detected" /\ task'[s].last = "saved"
                => ImportedKeys(sources'[s].extra_config) = ImportedKeys(sources[s].extra_config)
       /\ ~IsNone(view) /\ IsNone(view')
             => \A s \in Sources :
                   BaselineKeys(sources'[s].extra_config) = BaselineKeys(sources[s].extra_config)]_vars

\* the greatest element of a non-empty set of numbers
MaxOf(S) == CHOOSE v \in S : \A w \in S : w <= v

\* C31: when at least one of the two snapshots of a rendered check yields a
\* count, the count the evaluator uses is the maximum of the counts of the
\* two snapshots.
C31_MaxOfSnapshots ==
    ~IsNone(soup)
        => LET candidates == ParsedCountCandidates(soup[1].short, soup[1].long)
           IN  candidates # {} => count = Some(Some(MaxOf(candidates)))

\* the execution inserted a row of the text-hash detector
TextHashEvent == inserted' # <<>> /\ inserted'[1].meta.detector = "text-hash"

\* C32 as claimed: a text-hash event is created only when the visible text
\* differs from the visible text of the evaluated poll right before it.
C32_TextDiffersFromPreviousPoll ==
    [][(Detecting /\ TextHashEvent /\ evaluated # NoneVal)
       => NewText # evaluated[1].html.lines]_vars
\* C32 as the code has it: a text-hash event is created only when the hash
\* of the visible text differs from the stored last_hash, and last_hash is
\* the hash of the text of the latest evaluated poll that parsed no count: a
\* poll that parses a count leaves it as it was (or, in the baseline branch,
\* removes it), and a poll that ends before parsing does not touch it.
C32_TextDiffersFromLastHashed ==
    /\ [][(Detecting /\ TextHashEvent) => HashText(NewText) # extra_config.last_hash]_vars
    /\ [][Checked
          => extra_config'.last_hash =
                IF Parsing /\ IsNone(NewCount) THEN HashText(NewText)
                ELSE IF Parsing /\ poll'.ret = "baseline" THEN EmptyStr
                ELSE extra_config.last_hash]_vars
\* a text-hash event on a source that has a count stored: a poll before it
\* parsed a count and left last_hash as it was
C32_Witness ==
    /\ poll.ret = "evaluated"
    /\ inserted # <<>>
    /\ inserted[1].meta.detector = "text-hash"
    /\ ~IsNone(extra_config.last_count)

\* C33: the active-notification endpoint never answers a poll of the client
\* with a notification the client has already shown in a popup.
C33_ShownNeverReturned ==
    [][(task.pc = "idle" /\ task'.pc = "fetched") => task'.data[1] \notin task.shown]_vars

Defaults(user) ==
    {i \in DOMAIN table.ringtones : table.ringtones[i].user = user /\ table.ringtones[i].is_default}

\* C35: in every state a user has at most one CustomRingtone with
\* is_default = true, and when an upload completes UserSettings.default_ringtone
\* of its user points to the ringtone it created.
C35_SingleDefault ==
    /\ [](\A user \in Users : Cardinality(Defaults(user)) <= 1)
    /\ [][\A r \in Uploads :
             (task[r].pc = "created" /\ task'[r].pc = "idle")
                => table'.default_ringtone[task[r].user] = task[r].rt]_vars

\* the notifications that are not of the user with this key
NotOwnedBy(key, tbl) == SelectSeq(tbl, LAMBDA n : n.user # key)

\* C36: a mark-read, clear-all or delete-all request leaves every
\* notification of every other user as it was (flags and existence),
\* whatever ids it carries, and a request with an invalid key, or a
\* mark-read request without ids, changes nothing.
C36_OnlyOwnNotifications ==
    [][LET r == response'[1]
       IN  /\ NotOwnedBy(r.key, table') = NotOwnedBy(r.key, table)
           /\ r.key = "invalid" => table' = table
           /\ (r.endpoint \in {"mark_notifications_read_by_key", "NotificationMarkReadAPI"}
               /\ r.ids = {}) => table' = table]_vars
\* a mark-read request carried the id of another user's unseen notification
\* and of an own one: the own one is seen, the other is not
C36_Witness ==
    /\ ~IsNone(response)
    /\ response[1].endpoint = "mark_notifications_read_by_key"
    /\ \E i, j \in DOMAIN table :
          /\ {table[i].id, table[j].id} \subseteq response[1].ids
          /\ table[i].user = response[1].key /\ table[i].seen
          /\ table[j].user # response[1].key /\ ~table[j].seen

\* the sources link_source created with the --rendered option
LinkedRendered == {sid \in DOMAIN sources : "rendered" \in DOMAIN sources[sid].payload}

\* C37: a source created by link_source with --rendered has rendered = true
\* in its extra_config after the create request, and check_source computes
\* cur_mode = "rendered" for it.
C37_RenderedOptionStored ==
    /\ \A sid \in LinkedRendered : sources[sid].extra_config.rendered
    /\ (~IsNone(response) /\ response[1].source \in LinkedRendered)
          => response[1].cur_mode = "rendered"

\* the keys of extra_config and the fields of the row a check may write
WrittenKeys == {"fingerprint", "last_count", "last_hash", "mode"}

\* C38: across any sequence of checks, check_source leaves the enabled
\* flag, check_url, name and owner of every source as they were, and every
\* key of extra_config other than fingerprint, last_count, last_hash and
\* mode, the configuration keys among them; it writes only those four keys
\* and last_checked.
C38_ChecksWriteBaselineOnly ==
    [][\A s \in Sources :
          LET before == sources[s]
              after == sources'[s]
          IN  /\ after.enabled = before.enabled
              /\ after.check_url = before.check_url
              /\ after.name = before.name
              /\ after.user = before.user
              /\ DOMAIN after.extra_config = DOMAIN before.extra_config
              /\ ConfigKeys \subseteq DOMAIN before.extra_config \ WrittenKeys
              /\ \A k \in DOMAIN before.extra_config \ WrittenKeys :
                    after.extra_config[k] = before.extra_config[k]]_vars
\* a rendered source with cookies that a check has given a baseline and a
\* later check has evaluated with an event
C38_Witness ==
    \E s \in Sources :
        /\ sources[s].extra_config.rendered
        /\ sources[s].extra_config.cookies # NoneVal
        /\ sources[s].extra_config.mode = "rendered"
        /\ ~IsNone(sources[s].extra_config.fingerprint)
        /\ ~IsNone(sources[s].last_checked)
        /\ \E i \in DOMAIN table : table[i].source = s

C40_EnabledCheckedInfinitelyOften ==
    \A s \in Sources : []<>(~sources[s].enabled \/ sources[s].fresh)
====
